---------------------------- MODULE Spec2Model ----------------------------
(***************************************************************************)
(* Model of the AFI fixed-width file parser: validaciones.py (field        *)
(* validators and the length gate), afi_archivo.py (the AfiArchivo session *)
(* with its eleven line parsers) and the file loop of main.py.             *)
(*                                                                         *)
(* A Python str is a sequence of one-character strings.  An exception      *)
(* message is the flat sequence of the pieces its f-string concatenates;   *)
(* integers are rendered with ToString, as the f-string renders them.      *)
(* Accented letters of the literal message texts are written unaccented.   *)
(***************************************************************************)
EXTENDS Integers, Sequences, FiniteSets, TLC

VARIABLES
    afi_data,          \* main: the batch, a sequence of [archivo, lineas]
    pc,                \* main: position inside the body of the for loop
    idx,               \* main: index of the file of the current iteration
    afi,               \* main: the AfiArchivo of the current iteration
    errores_longitud,  \* main: dict archivo -> [str(e)], as a sequence of entries
    errores_parseo,    \* main: dict archivo -> afi.errores_parseo
    resultados,        \* main: dict archivo -> afi.resultados
    llamadas,          \* history: the method calls main has made, in order
    sesion,            \* a client of AfiArchivo: the sessions it holds
    caso               \* a direct call of a static validator: arguments and outcome

vars == <<afi_data, pc, idx, afi, errores_longitud, errores_parseo, resultados,
          llamadas, sesion, caso>>

----------------------------------------------------------------------------
(* Bounds of the model *)

MaxLineas == 2
MaxArchivos == 2
MaxParseos == 2

(* validar_longitudes(..., longitud=70), validar_longitud(self, longitud=70) *)
LONGITUD == 70

----------------------------------------------------------------------------
(* Characters *)

Digitos == {"0", "1", "2", "3", "4", "5", "6", "7", "8", "9"}

Mayusculas == {"A", "B", "C", "D", "E", "F", "G", "H", "I", "J", "K", "L", "M",
               "N", "O", "P", "Q", "R", "S", "T", "U", "V", "W", "X", "Y", "Z"}

Minusculas == {"a", "b", "c", "d", "e", "f", "g", "h", "i", "j", "k", "l", "m",
               "n", "o", "p", "q", "r", "s", "t", "u", "v", "w", "x", "y", "z"}

Blancos == {" "}

(* Letters outside A-Z and a-z, which str.isalpha() accepts as well; each  *)
(* is one character, written here as a tilde and its base letter           *)
LetrasNoAscii == {"~N", "~n"}

Min(a, b) == IF a < b THEN a ELSE b

(* n copies of the character c *)
Rep(c, n) == [k \in 1..n |-> c]

(* Python slice s[a:b] with 0 <= a <= b: clipped to the length of s *)
Slice(s, a, b) == SubSeq(s, a + 1, Min(b, Len(s)))

(* s with the columns a..b-1 (0-based) replaced by v, Len(v) = b - a *)
Reemplazar(s, a, b, v) == SubSeq(s, 1, a) \o v \o SubSeq(s, b + 1, Len(s))

(* str.isdigit(): non-empty and every character a digit *)
IsDigit(s) == Len(s) > 0 /\ \A k \in 1..Len(s) : s[k] \in Digitos

(* str.isalpha(): non-empty and every character a letter *)
IsAlpha(s) ==
    Len(s) > 0 /\ \A k \in 1..Len(s) : s[k] \in Mayusculas \cup Minusculas \cup LetrasNoAscii

(* s.strip() == "" *)
EsBlanco(s) == \A k \in 1..Len(s) : s[k] \in Blancos

(* s.lstrip("0") *)
RECURSIVE LStrip0(_)
LStrip0(s) == IF s # <<>> /\ Head(s) = "0" THEN LStrip0(Tail(s)) ELSE s

(* repr of a list of str: ['a', 'b'] *)
RECURSIVE ReprElems(_)
ReprElems(l) ==
    IF l = <<>> THEN <<>>
    ELSE <<"'">> \o Head(l) \o <<"'">>
         \o (IF Len(l) > 1 THEN <<", ">> ELSE <<>>) \o ReprElems(Tail(l))

ReprLista(l) == <<"[">> \o ReprElems(l) \o <<"]">>

----------------------------------------------------------------------------
(* Outcome of a call: a returned value, or a raised exception *)

Ok(v) == [ok |-> TRUE, val |-> v, clase |-> "", msg |-> <<>>]

Raise(c, m) == [ok |-> FALSE, val |-> <<>>, clase |-> c, msg |-> m]

(* A variant of the except clause: except AfiError *)
Capturadas_sin_ValueError == {"ValidacionError", "LongitudLineaError", "AfiError"}

(* The exception classes parsear catches: except (AfiError, ValueError) *)
Capturadas == {"ValidacionError", "LongitudLineaError", "AfiError", "ValueError"}

----------------------------------------------------------------------------
(* validaciones.py: the field validators *)

(* The common head of every ValidacionError message *)
MsgCampo(archivo, seccion, nombre_seccion, fila, columna) ==
    <<"Error en archivo '", archivo, "', fila ", ToString(fila), ", seccion '",
      nombre_seccion, "' (pos ", ToString(columna + 1), "): '">> \o seccion \o <<"' ">>

validar_numeros(archivo, seccion, nombre_seccion, fila, columna) ==
    IF ~IsDigit(seccion)
    THEN Raise("ValidacionError",
               MsgCampo(archivo, seccion, nombre_seccion, fila, columna)
               \o <<"no es un numero valido.">>)
    ELSE Ok(seccion)

(* A variant that tests seccion.strip().isalpha() and so takes padding *)
validar_letras_con_relleno(archivo, seccion, nombre_seccion, fila, columna) ==
    IF ~(\E k \in 1..Len(seccion) :
            /\ IsAlpha(SubSeq(seccion, 1, k))
            /\ EsBlanco(SubSeq(seccion, k + 1, Len(seccion))))
    THEN Raise("ValidacionError",
               MsgCampo(archivo, seccion, nombre_seccion, fila, columna)
               \o <<"no es una cadena exclusivamente alfabetica.">>)
    ELSE Ok(seccion)

validar_letras(archivo, seccion, nombre_seccion, fila, columna) ==
    IF ~IsAlpha(seccion)
    THEN Raise("ValidacionError",
               MsgCampo(archivo, seccion, nombre_seccion, fila, columna)
               \o <<"no es una cadena exclusivamente alfabetica.">>)
    ELSE Ok(seccion)

(* ^[0-9]{8}[A-Z]$ *)
RegexDni(s) ==
    /\ Len(s) = 9
    /\ \A k \in 1..8 : s[k] \in Digitos
    /\ s[9] \in Mayusculas

(* ^[XYZ][0-9]{7}[A-Z]$ *)
RegexNie(s) ==
    /\ Len(s) = 9
    /\ s[1] \in {"X", "Y", "Z"}
    /\ \A k \in 2..8 : s[k] \in Digitos
    /\ s[9] \in Mayusculas

(* A variant without the lower limit: ^[A-Z0-9]{0,9}$ *)
RegexPasaporte_hasta9(s) ==
    /\ Len(s) \in 0..9
    /\ \A k \in 1..Len(s) : s[k] \in Mayusculas \cup Digitos

(* ^[A-Z0-9]{6,9}$ *)
RegexPasaporte(s) ==
    /\ Len(s) \in 6..9
    /\ \A k \in 1..Len(s) : s[k] \in Mayusculas \cup Digitos

(* stdnum.es.cif.is_valid, a library outside the repository: the tax       *)
(* identifiers it accepts, among those the model uses                      *)
CifValidos == { <<"A", "5", "8", "8", "1", "8", "5", "0", "1">> }

CifIsValid(s) == s \in CifValidos

validar_tipo_documento(archivo, seccion0, nombre_seccion, fila, columna, tipo0) ==
    LET seccion == LStrip0(seccion0) IN
    IF tipo0 = <<>>
    THEN Raise("IndexError", <<"string index out of range">>)
    ELSE
    LET tipo == tipo0[1]
        err(causa) == Raise("ValidacionError",
                            MsgCampo(archivo, seccion, nombre_seccion, fila, columna)
                            \o <<causa>>)
    IN  IF tipo = "1"
        THEN IF ~RegexDni(seccion) THEN err("no es un numero de DNI valido.")
             ELSE Ok(seccion)
        ELSE IF tipo = "2"
        THEN IF ~RegexPasaporte(seccion)
             THEN err("no es un numero de pasaporte valido.")
             ELSE Ok(seccion)
        ELSE IF tipo = "6"
        THEN IF ~RegexNie(seccion) THEN err("no es un numero de NIE valido.")
             ELSE Ok(seccion)
        ELSE IF tipo = "9"
        THEN IF ~CifIsValid(seccion) THEN err("no es un numero de CIF valido.")
             ELSE Ok(seccion)
        ELSE Ok(seccion)

(* A reference dictionary is a sequence of [clave, etiqueta], in key order *)
Claves(diccionario) == [k \in 1..Len(diccionario) |-> diccionario[k].clave]

EnDiccionario(seccion, diccionario) ==
    \E k \in 1..Len(diccionario) : diccionario[k].clave = seccion

Etiqueta(seccion, diccionario) ==
    diccionario[CHOOSE k \in 1..Len(diccionario) : diccionario[k].clave = seccion].etiqueta

(* A variant that accepts every key of the dictionary, the blank one too *)
validar_diccionario_clave_blanca(archivo, seccion, nombre_seccion, fila, columna, diccionario, nullable) ==
    IF nullable /\ EsBlanco(seccion)
    THEN Ok(seccion)
    ELSE IF ~EnDiccionario(seccion, diccionario)
    THEN Raise("ValidacionError",
               MsgCampo(archivo, seccion, nombre_seccion, fila, columna)
               \o <<"no coincide con ninguno de los siguientes valores: ">>
               \o ReprLista(Claves(diccionario)))
    ELSE Ok(seccion \o <<"('", Etiqueta(seccion, diccionario), "')">>)

(* A variant that returns the code alone, without the label *)
validar_diccionario_sin_etiqueta(archivo, seccion, nombre_seccion, fila, columna, diccionario, nullable) ==
    IF nullable /\ EsBlanco(seccion)
    THEN Ok(seccion)
    ELSE IF EsBlanco(seccion) \/ ~EnDiccionario(seccion, diccionario)
    THEN Raise("ValidacionError",
               MsgCampo(archivo, seccion, nombre_seccion, fila, columna)
               \o <<"no coincide con ninguno de los siguientes valores: ">>
               \o ReprLista(Claves(diccionario)))
    ELSE Ok(seccion)

validar_diccionario(archivo, seccion, nombre_seccion, fila, columna, diccionario, nullable) ==
    IF nullable /\ EsBlanco(seccion)
    THEN Ok(seccion)
    ELSE IF EsBlanco(seccion) \/ ~EnDiccionario(seccion, diccionario)
    THEN Raise("ValidacionError",
               MsgCampo(archivo, seccion, nombre_seccion, fila, columna)
               \o <<"no coincide con ninguno de los siguientes valores: ">>
               \o ReprLista(Claves(diccionario)))
    ELSE Ok(seccion \o <<"('", Etiqueta(seccion, diccionario), "')">>)

validar_obligatorio(archivo, seccion, nombre_seccion, fila, columna) ==
    IF EsBlanco(seccion)
    THEN Raise("ValidacionError",
               MsgCampo(archivo, seccion, nombre_seccion, fila, columna)
               \o <<"no puede estar vacio.">>)
    ELSE Ok(seccion)

(* A variant that also accepts the beginning of an allowed value *)
validar_valores_prefijo(archivo, seccion, nombre_seccion, fila, columna, valores) ==
    IF ~(\E k \in 1..Len(valores) :
            /\ Len(seccion) <= Len(valores[k])
            /\ SubSeq(valores[k], 1, Len(seccion)) = seccion)
    THEN Raise("ValidacionError",
               MsgCampo(archivo, seccion, nombre_seccion, fila, columna)
               \o <<"no coincide con ninguno de los siguientes valores: '">>
               \o ReprLista(valores) \o <<"'.">>)
    ELSE Ok(seccion)

validar_valores(archivo, seccion, nombre_seccion, fila, columna, valores) ==
    IF ~(\E k \in 1..Len(valores) : valores[k] = seccion)
    THEN Raise("ValidacionError",
               MsgCampo(archivo, seccion, nombre_seccion, fila, columna)
               \o <<"no coincide con ninguno de los siguientes valores: '">>
               \o ReprLista(valores) \o <<"'.">>)
    ELSE Ok(seccion)

(* The for loop of validar_longitudes from line i (idx) on:                  *)
(* for idx, linea in enumerate(lineas, start=1): if len(linea) != longitud: raise *)
RECURSIVE LongitudesDesde(_, _, _, _)
LongitudesDesde(nombre_archivo, lineas, longitud, i) ==
    IF i > Len(lineas)
    THEN Ok(<<>>)
    ELSE IF Len(lineas[i]) # longitud
    THEN Raise("LongitudLineaError",
               <<nombre_archivo, ", linea ", ToString(i), ": longitud ",
                 ToString(Len(lineas[i])), " != ", ToString(longitud)>>)
    ELSE LongitudesDesde(nombre_archivo, lineas, longitud, i + 1)

(* A variant that goes through the lines from the last one to the first *)
RECURSIVE LongitudesHacia(_, _, _, _)
LongitudesHacia(nombre_archivo, lineas, longitud, i) ==
    IF i < 1
    THEN Ok(<<>>)
    ELSE IF Len(lineas[i]) # longitud
    THEN Raise("LongitudLineaError",
               <<nombre_archivo, ", linea ", ToString(i), ": longitud ",
                 ToString(Len(lineas[i])), " != ", ToString(longitud)>>)
    ELSE LongitudesHacia(nombre_archivo, lineas, longitud, i - 1)

validar_longitudes_ultima(nombre_archivo, lineas, longitud) ==
    LongitudesHacia(nombre_archivo, lineas, longitud, Len(lineas))

validar_longitudes(nombre_archivo, lineas, longitud) ==
    LongitudesDesde(nombre_archivo, lineas, longitud, 1)

----------------------------------------------------------------------------
(* diccionarios: the reference dictionaries (code -> label) the parsers    *)
(* look fields up in.  The module is an external collaborator; each        *)
(* dictionary holds a few of its codes, of the width of the field.         *)

REGIMEN_SECTOR ==
    << [clave |-> <<"0", "1", "1", "1">>, etiqueta |-> "Regimen General"],
       [clave |-> <<"0", "5", "2", "1">>, etiqueta |-> "Autonomos"] >>

PROVINCIAS ==
    << [clave |-> <<"0", "8">>, etiqueta |-> "Barcelona"],
       [clave |-> <<"2", "8">>, etiqueta |-> "Madrid"] >>

TIPO_IDENTIFICACION ==
    << [clave |-> <<"1">>, etiqueta |-> "DNI"],
       [clave |-> <<"2">>, etiqueta |-> "Pasaporte"],
       [clave |-> <<"6">>, etiqueta |-> "NIE"],
       [clave |-> <<"9">>, etiqueta |-> "CIF"] >>

PAISES ==
    << [clave |-> <<"2", "5", "0">>, etiqueta |-> "Francia"],
       [clave |-> <<"7", "2", "4">>, etiqueta |-> "Espana"] >>

ACCIONES_EMP ==
    << [clave |-> <<"C", "T", "A">>, etiqueta |-> "Cambio de titularidad"] >>

TIPO_AFABETICO_EMPRESARIO ==
    << [clave |-> <<"R">>, etiqueta |-> "Razon social"],
       [clave |-> <<"N">>, etiqueta |-> "Nombre"] >>

TIPO_PECULIARIDAD_COTIZACION ==
    << [clave |-> <<"0", "1">>, etiqueta |-> "Bonificacion"],
       [clave |-> <<"0", "2">>, etiqueta |-> "Reduccion"] >>

IPF ==
    << [clave |-> <<"1">>, etiqueta |-> "DNI"],
       [clave |-> <<"2">>, etiqueta |-> "Pasaporte"],
       [clave |-> <<"6">>, etiqueta |-> "NIE"] >>

TIPO_VIA ==
    << [clave |-> <<"A", "V">>, etiqueta |-> "Avenida"],
       [clave |-> <<"C", "L">>, etiqueta |-> "Calle"] >>

----------------------------------------------------------------------------
(* afi_archivo.py: the eleven line parsers, each as the table of its       *)
(* statements in order.  A field is                                        *)
(*   clave     the key of the field in the returned dict                   *)
(*   ini, fin  the slice linea[ini:fin]                                    *)
(*   regla     the validator the statement calls ("crudo": none)           *)
(*   seccion   the nombre_seccion argument passed to the validator         *)
(*   columna   the columna argument passed to the validator                *)
(*   valores, dic, nullable, tipo   the validator's further arguments      *)

Campo(clave, ini, fin, regla, seccion, columna, valores, dic, nullable, tipo) ==
    [clave |-> clave, ini |-> ini, fin |-> fin, regla |-> regla,
     seccion |-> seccion, columna |-> columna, valores |-> valores,
     dic |-> dic, nullable |-> nullable, tipo |-> tipo]

(* A variant whose slice takes one column more: linea[ini:fin + 1] *)
Crudo_una_mas(clave, ini, fin) ==
    Campo(clave, ini, fin + 1, "crudo", "", 0, <<>>, <<>>, FALSE, "")

Crudo(clave, ini, fin) ==
    Campo(clave, ini, fin, "crudo", "", 0, <<>>, <<>>, FALSE, "")

CampoValores(clave, ini, fin, seccion, columna, valores) ==
    Campo(clave, ini, fin, "valores", seccion, columna, valores, <<>>, FALSE, "")

CampoNumeros(clave, ini, fin, seccion, columna) ==
    Campo(clave, ini, fin, "numeros", seccion, columna, <<>>, <<>>, FALSE, "")

CampoLetras(clave, ini, fin, seccion, columna) ==
    Campo(clave, ini, fin, "letras", seccion, columna, <<>>, <<>>, FALSE, "")

CampoObligatorio(clave, ini, fin, seccion, columna) ==
    Campo(clave, ini, fin, "obligatorio", seccion, columna, <<>>, <<>>, FALSE, "")

CampoDiccionario(clave, ini, fin, seccion, columna, dic, nullable) ==
    Campo(clave, ini, fin, "diccionario", seccion, columna, <<>>, dic, nullable, "")

CampoDocumento(clave, ini, fin, seccion, columna, tipo) ==
    Campo(clave, ini, fin, "tipo_documento", seccion, columna, <<>>, <<>>, FALSE, tipo)

(* A variant that looks the field up in the dictionary whatever the type *)
CampoNacionalidad_siempre(clave, ini, fin, seccion, columna, dic, tipo) ==
    Campo(clave, ini, fin, "diccionario", seccion, columna, <<>>, dic, FALSE, "")

(* if tipo[0] == "1": the raw slice, else validar_diccionario *)
CampoNacionalidad(clave, ini, fin, seccion, columna, dic, tipo) ==
    Campo(clave, ini, fin, "nacionalidad", seccion, columna, <<>>, dic, FALSE, tipo)

EsquemaETI ==
    << Crudo("cabecera", 0, 3),
       CampoValores("sintaxis", 3, 7, "sintaxis", 3,
                    <<<<"A", "F", "I", "9">>>>),
       CampoNumeros("version_mensaje", 7, 8, "version_mensaje", 7),
       CampoObligatorio("id_programa", 8, 12, "id_programa", 8),
       CampoObligatorio("version_proceso", 12, 13, "version_proceso", 12),
       CampoNumeros("clave_autorizacion", 13, 21, "version_mensaje", 13),
       Crudo("reservado_1", 21, 29),
       CampoNumeros("fecha", 29, 37, "version_mensaje", 29),
       CampoNumeros("hora", 37, 41, "version_mensaje", 37),
       CampoObligatorio("nombre_archivo", 41, 49, "nombre_archivo", 41),
       CampoValores("extension_archivo", 49, 52, "extension_archivo", 49,
                    <<<<"A", "F", "I">>>>),
       CampoValores("prioridad", 52, 53, "prioridad", 49,
                    <<<<"N">>>>),
       Crudo("indicador_prueba", 53, 54),
       CampoNumeros("id_registro_ano", 54, 56, "id_registro_ano", 54),
       CampoNumeros("id_registro_mes", 56, 58, "id_registro_mes", 56),
       CampoNumeros("id_registro_serie", 58, 59, "id_registro_serie", 58),
       CampoNumeros("id_registro_envio", 59, 64, "id_registro_envio", 59),
       CampoNumeros("id_registro_ordinal", 64, 68, "id_registro_ordinal", 64),
       Crudo("reservado_2", 68, 69),
       Crudo("reservado_3", 69, 70) >>

EsquemaEMP ==
    << Crudo("cabecera", 0, 3),
       CampoDiccionario("seguridad_social_regimen", 3, 7, "seguridad_social_regimen", 3,
                        REGIMEN_SECTOR, FALSE),
       CampoDiccionario("seguridad_social_provincia", 7, 9, "seguridad_social_provincia", 7,
                        PROVINCIAS, FALSE),
       CampoObligatorio("seguridad_social_numero", 9, 18, "id_programa", 8),
       CampoDiccionario("empresario_tipo_identificacion", 18, 19, "empresario_tipo_identificacion", 18,
                        TIPO_IDENTIFICACION, FALSE),
       CampoDiccionario("empresario_codigo_pais", 19, 22, "empresario_codigo_pais", 19,
                        PAISES, FALSE),
       CampoDocumento("empresario_numero_identificacion", 22, 36, "empresario_numero_identificacion", 22,
                      "empresario_tipo_identificacion"),
       Crudo("empresario_calificador", 36, 38),
       CampoDiccionario("ccc_regimen", 38, 42, "ccc_regimen", 38,
                        REGIMEN_SECTOR, FALSE),
       CampoDiccionario("ccc_provincia", 42, 44, "ccc_provincia", 42,
                        PROVINCIAS, FALSE),
       Crudo("ccc_numero", 44, 53),
       Crudo("reservado_recaudacion", 53, 66),
       CampoDiccionario("accion", 66, 69, "accion", 66,
                        ACCIONES_EMP, TRUE),
       Crudo("reservado", 69, 70) >>

EsquemaRZS ==
    << Crudo("cabecera", 0, 3),
       CampoValores("indicador_rzs", 3, 4, "indicador_rzs", 3,
                    <<<<"0">>, <<"1">>, <<"2">>, <<"3">>, <<"4">>>>),
       CampoDiccionario("tipo_alfabetico", 4, 5, "tipo_alfabetico", 4,
                        TIPO_AFABETICO_EMPRESARIO, FALSE),
       Crudo("razon_social", 5, 60),
       Crudo("clave_autorizacion", 60, 68),
       Crudo("reservado", 68, 70) >>

(* A variant with key = f"peculiaridad_{i}" *)
EsquemaPES_desde0 ==
    << Crudo("cabecera", 0, 3) >>
    \o [k \in 1..33 |->
          CampoDiccionario("peculiaridad_" \o ToString(k - 1),
                           3 + ((k - 1) * 2), (3 + ((k - 1) * 2)) + 2,
                           "peculiaridad_" \o ToString(k - 1), 3 + ((k - 1) * 2),
                           TIPO_PECULIARIDAD_COTIZACION, FALSE)]

(* for i in range(33): start = 3 + (i * 2); end = start + 2;                *)
(* key = f"peculiaridad_{i+1}"; here k = i + 1                              *)
EsquemaPES ==
    << Crudo("cabecera", 0, 3) >>
    \o [k \in 1..33 |->
          CampoDiccionario("peculiaridad_" \o ToString(k),
                           3 + ((k - 1) * 2), (3 + ((k - 1) * 2)) + 2,
                           "peculiaridad_" \o ToString(k), 3 + ((k - 1) * 2),
                           TIPO_PECULIARIDAD_COTIZACION, FALSE)]

EsquemaTRA ==
    << Crudo("cabecera", 0, 3),
       CampoDiccionario("ss_provincia", 3, 5, "ss_provincia", 3,
                        PROVINCIAS, FALSE),
       CampoNumeros("ss_numero", 5, 15, "ss_numero", 5),
       CampoDiccionario("ipf_tipo", 15, 16, "ipf_tipo", 15,
                        IPF, FALSE),
       CampoDiccionario("ipf_pais", 16, 19, "ipf_pais", 16,
                        PAISES, FALSE),
       CampoDocumento("ipf_alfaclave", 19, 33, "ipf_alfaclave", 19,
                      "ipf_tipo"),
       Crudo("reservado_respuesta_afi", 33, 36),
       Crudo("reservado_recaudacion", 36, 61),
       CampoNacionalidad("nacionalidad", 61, 64, "nacionalidad", 61,
                         PAISES, "ipf_tipo"),
       Crudo("indicador_trabajador", 64, 65),
       Crudo("reservado", 65, 70) >>

EsquemaAYN ==
    << Crudo("cabecera", 0, 3),
       CampoLetras("primer_apellido", 3, 23, "primer_apellido", 3),
       Crudo("segundo_apellido", 23, 43),
       Crudo("nombre", 43, 58),
       Crudo("reservado", 58, 70) >>

EsquemaDOM ==
    << Crudo("cabecera", 0, 3),
       Crudo("indicador_domicilio", 3, 4),
       CampoDiccionario("dom_tipo_via", 4, 6, "dom_tipo_via", 4,
                        TIPO_VIA, FALSE),
       Crudo("dom_nombre_via", 6, 42),
       Crudo("dom_numero", 42, 47),
       Crudo("dom_bis", 47, 49),
       Crudo("dom_bloque", 49, 51),
       Crudo("dom_escalera", 51, 53),
       Crudo("dom_piso", 53, 55),
       Crudo("dom_puerta", 55, 58),
       Crudo("telefono", 58, 68),
       Crudo("reservado", 68, 70) >>

(* A variant that validates codigo_postal with validar_numeros *)
EsquemaLDD_postal_numerico ==
    << Crudo("cabecera", 0, 3),
       CampoNumeros("codigo_postal", 3, 8, "codigo_postal", 3),
       Crudo("localidad", 8, 48),
       Crudo("provincia", 48, 50),
       Crudo("telefono_sms", 50, 62),
       Crudo("prefijo_pais", 62, 65),
       Crudo("reservado", 65, 70) >>

EsquemaLDD ==
    << Crudo("cabecera", 0, 3),
       Crudo("codigo_postal", 3, 8),
       Crudo("localidad", 8, 48),
       Crudo("provincia", 48, 50),
       Crudo("telefono_sms", 50, 62),
       Crudo("prefijo_pais", 62, 65),
       Crudo("reservado", 65, 70) >>

EsquemaFAB ==
    << Crudo("cabecera", 0, 3),
       Crudo("accion", 3, 6),
       Crudo("situacion", 6, 8),
       Crudo("fecha_real", 8, 16),
       Crudo("grupo_cotizacion", 16, 18),
       Crudo("grupo_cotizacion_diario", 18, 19),
       Crudo("grado_discapacidad", 19, 21),
       Crudo("tipo_contrato", 21, 24),
       Crudo("condicion_desempleado", 24, 25),
       Crudo("mujer_subrepresentada", 25, 26),
       Crudo("coeficiente_tiempo_parcial", 26, 29),
       Crudo("colectivo_trabajador", 29, 32),
       Crudo("indicador_impresion", 32, 33),
       Crudo("categoria_profesional", 33, 40),
       Crudo("fecha_nacimiento", 40, 48),
       Crudo("sexo", 48, 49),
       Crudo("reservado", 49, 50),
       Crudo("cese_actividad", 50, 51),
       Crudo("coeficiente_huelga_ere", 51, 54),
       Crudo("mujer_reincorporada", 54, 55),
       Crudo("incapacitado_readmitido", 55, 56),
       Crudo("trabajador_autonomo", 56, 57),
       Crudo("5jr_semana", 57, 58),
       Crudo("n_trabajadores_empresa", 58, 59),
       Crudo("relacion_laboral_especial", 59, 63),
       Crudo("tipo_inactividad", 63, 65),
       Crudo("responsable_formacion", 65, 66),
       Crudo("exenciones_trabajador", 66, 67),
       Crudo("exclusion_social_victimas", 67, 68),
       Crudo("renta_activa_insercion", 68, 69),
       Crudo("trabajadoras_24m_alumbramiento", 69, 70) >>

EsquemaDAM ==
    << Crudo("cabecera", 0, 3),
       Crudo("fecha_inicio_contrato", 3, 11),
       Crudo("fic_especifico", 11, 12),
       Crudo("nuss_trabajador_sustituido", 12, 24),
       Crudo("causa_sustitucion", 24, 26),
       Crudo("permanencia_parte_entera", 26, 27),
       Crudo("permamencia_parte_decimal", 27, 29),
       Crudo("coeficiente_reductor_jubilacion", 29, 31),
       Crudo("relevo", 31, 32),
       Crudo("dias_trabajados", 32, 34),
       Crudo("sistema_especial", 34, 36),
       Crudo("exclusion_cotizacion", 36, 39),
       Crudo("cambio_puesto_trabajo", 39, 41),
       Crudo("indicativo_perdida_beneficios", 41, 43),
       Crudo("vinculo_familiar", 43, 44),
       Crudo("nss_persona_fisica_vinculada", 44, 56),
       Crudo("programa_formento_empleo_agrario", 56, 57),
       Crudo("modalidad_cotizacion", 57, 58),
       Crudo("beneficios", 58, 60),
       Crudo("ocupacion", 60, 62),
       Crudo("excedente_sector_industrial", 62, 64),
       Crudo("reduccion_jornada", 64, 67),
       Crudo("coeficiente_tiempo_parcial_inicial", 67, 70) >>

EsquemaODL ==
    << Crudo("cabecera", 0, 3),
       CampoNumeros("convenio_colectivo", 3, 17, "convenio_colectivo", 3),
       Crudo("reservado_1", 17, 23),
       CampoNumeros("ocupacion_cno", 23, 27, "ocupacion_cno", 23),
       CampoNumeros("reservado_2", 27, 33, "reservado_2", 27),
       CampoNumeros("importe_contribucion_entero", 33, 37, "importe_contribucion_entero", 33),
       CampoNumeros("importe_contribucion_decimal", 37, 39, "importe_contribucion_decimal", 37),
       Crudo("entidad_plan_pensiones", 39, 44),
       CampoNumeros("pais", 44, 47, "importe_contribucion_decimal", 44),
       Crudo("region_especial_pais", 47, 50),
       CampoNumeros("fin_previsto_contrato", 50, 58, "importe_contribucion_decimal", 50),
       Crudo("reservado_3", 58, 70) >>

----------------------------------------------------------------------------
(* afi_archivo.py: running one line parser *)

(* The value already bound to the local variable clave ("" never bound) *)
Valor(rec, clave) ==
    IF \E k \in 1..Len(rec) : rec[k][1] = clave
    THEN rec[CHOOSE k \in 1..Len(rec) : rec[k][1] = clave][2]
    ELSE <<>>

(* One statement of a line parser: the slice, and the validator call *)
ValidarCampo(archivo, fila, linea, c, rec) ==
    LET seccion == Slice(linea, c.ini, c.fin) IN
    CASE c.regla = "crudo" -> Ok(seccion)
      [] c.regla = "valores" ->
            validar_valores(archivo, seccion, c.seccion, fila, c.columna, c.valores)
      [] c.regla = "numeros" ->
            validar_numeros(archivo, seccion, c.seccion, fila, c.columna)
      [] c.regla = "letras" ->
            validar_letras(archivo, seccion, c.seccion, fila, c.columna)
      [] c.regla = "obligatorio" ->
            validar_obligatorio(archivo, seccion, c.seccion, fila, c.columna)
      [] c.regla = "diccionario" ->
            validar_diccionario(archivo, seccion, c.seccion, fila, c.columna,
                                c.dic, c.nullable)
      [] c.regla = "tipo_documento" ->
            validar_tipo_documento(archivo, seccion, c.seccion, fila, c.columna,
                                   Valor(rec, c.tipo))
      [] c.regla = "nacionalidad" ->
            IF Valor(rec, c.tipo) = <<>>
            THEN Raise("IndexError", <<"string index out of range">>)
            ELSE IF Valor(rec, c.tipo)[1] = "1"
            THEN Ok(seccion)
            ELSE validar_diccionario(archivo, seccion, c.seccion, fila, c.columna,
                                     c.dic, c.nullable)

(* Whether the statement of field c calls a validator *)
LlamaValidador(c, rec) ==
    /\ c.regla # "crudo"
    /\ c.regla = "nacionalidad" => (Valor(rec, c.tipo) # <<>> /\ Valor(rec, c.tipo)[1] # "1")

(* The outcome of a line parser: the returned dict (a sequence of           *)
(* <<key, value>> in insertion order) or the exception raised, and          *)
(* validados, the keys of the fields whose validator was called, in order   *)
Devuelve(rec, validados) ==
    [ok |-> TRUE, rec |-> rec, clase |-> "", msg |-> <<>>, validados |-> validados]

Lanza(clase, msg, validados) ==
    [ok |-> FALSE, rec |-> <<>>, clase |-> clase, msg |-> msg, validados |-> validados]

(* The statements of a line parser from the k-th on: the first validator   *)
(* that raises ends the call; the dict is returned after the last one      *)
RECURSIVE EjecutarDesde(_, _, _, _, _, _, _)
EjecutarDesde(archivo, fila, linea, esquema, k, rec, validados) ==
    IF k > Len(esquema)
    THEN Devuelve(rec, validados)
    ELSE LET c == esquema[k]
             r == ValidarCampo(archivo, fila, linea, c, rec)
             v == IF LlamaValidador(c, rec) THEN Append(validados, c.clave)
                  ELSE validados
         IN  IF ~r.ok
             THEN Lanza(r.clase, r.msg, v)
             ELSE EjecutarDesde(archivo, fila, linea, esquema, k + 1,
                                Append(rec, <<c.clave, r.val>>), v)

(* A variant that goes on after a validator raises and, after the last     *)
(* statement, raises the error of the last field that failed               *)
RECURSIVE EjecutarTodos(_, _, _, _, _, _, _, _)
EjecutarTodos(archivo, fila, linea, esquema, k, rec, validados, fallo) ==
    IF k > Len(esquema)
    THEN IF fallo.ok THEN Devuelve(rec, validados)
         ELSE Lanza(fallo.clase, fallo.msg, validados)
    ELSE LET c == esquema[k]
             r == ValidarCampo(archivo, fila, linea, c, rec)
             v == IF LlamaValidador(c, rec) THEN Append(validados, c.clave)
                  ELSE validados
         IN  EjecutarTodos(archivo, fila, linea, esquema, k + 1,
                           Append(rec, <<c.clave,
                                         IF r.ok THEN r.val
                                         ELSE Slice(linea, c.ini, c.fin)>>),
                           v, IF r.ok THEN fallo ELSE r)

EjecutarEsquema_todos(archivo, fila, linea, esquema) ==
    EjecutarTodos(archivo, fila, linea, esquema, 1, <<>>, <<>>, Ok(<<>>))

EjecutarEsquema(archivo, fila, linea, esquema) ==
    EjecutarDesde(archivo, fila, linea, esquema, 1, <<>>, <<>>)

(* self.parsers *)
Parsers ==
    << [cabecera |-> <<"E", "T", "I">>, esquema |-> EsquemaETI],
       [cabecera |-> <<"E", "M", "P">>, esquema |-> EsquemaEMP],
       [cabecera |-> <<"R", "Z", "S">>, esquema |-> EsquemaRZS],
       [cabecera |-> <<"P", "E", "S">>, esquema |-> EsquemaPES],
       [cabecera |-> <<"T", "R", "A">>, esquema |-> EsquemaTRA],
       [cabecera |-> <<"A", "Y", "N">>, esquema |-> EsquemaAYN],
       [cabecera |-> <<"D", "O", "M">>, esquema |-> EsquemaDOM],
       [cabecera |-> <<"L", "D", "D">>, esquema |-> EsquemaLDD],
       [cabecera |-> <<"F", "A", "B">>, esquema |-> EsquemaFAB],
       [cabecera |-> <<"D", "A", "M">>, esquema |-> EsquemaDAM],
       [cabecera |-> <<"O", "D", "L">>, esquema |-> EsquemaODL] >>

Cabeceras == {Parsers[k].cabecera : k \in 1..Len(Parsers)}

(* parser = self.parsers.get(cabecera), for a line with a known header *)
EsquemaDeLinea(linea) ==
    Parsers[CHOOSE k \in 1..Len(Parsers) :
               Parsers[k].cabecera = SubSeq(linea, 1, 3)].esquema

(* AfiArchivo.parse_linea *)
MsgCabecera(nombre, fila, cabecera) ==
    <<nombre, ", fila ", ToString(fila), ": cabecera desconocida '">>
    \o cabecera \o <<"'">>

(* A variant that returns a dict of the header alone for an unknown header *)
parse_linea_sin_error(nombre, fila, linea) ==
    LET cabecera == Slice(linea, 0, 3) IN
    IF cabecera \notin Cabeceras
    THEN Devuelve(<< <<"cabecera", cabecera>> >>, <<>>)
    ELSE EjecutarEsquema(nombre, fila, linea,
            Parsers[CHOOSE k \in 1..Len(Parsers) : Parsers[k].cabecera = cabecera].esquema)

parse_linea(nombre, fila, linea) ==
    LET cabecera == Slice(linea, 0, 3) IN
    IF cabecera \notin Cabeceras
    THEN Lanza("ValueError", MsgCabecera(nombre, fila, cabecera), <<>>)
    ELSE EjecutarEsquema(nombre, fila, linea,
            Parsers[CHOOSE k \in 1..Len(Parsers) : Parsers[k].cabecera = cabecera].esquema)

----------------------------------------------------------------------------
(* afi_archivo.py: the session *)

(* AfiArchivo.__init__.  traza is a history of the calls of parse_linea:   *)
(* for each, the line number and the fields whose validator ran; excepcion *)
(* is the class of an exception that left parsear ("" none)                *)
AfiArchivo(nombre_archivo, lineas) ==
    [nombre |-> nombre_archivo, lineas |-> lineas,
     resultados |-> <<>>, errores_parseo |-> <<>>,
     traza |-> <<>>, excepcion |-> ""]

(* AfiArchivo.validar_longitud *)
validar_longitud(self, longitud) ==
    validar_longitudes(self.nombre, self.lineas, longitud)

(* The for loop of parsear from line fila on *)
RECURSIVE ParsearDesde(_, _)
ParsearDesde(self, fila) ==
    IF fila > Len(self.lineas)
    THEN self
    ELSE LET r == parse_linea(self.nombre, fila, self.lineas[fila])
             t == Append(self.traza, [fila |-> fila, validados |-> r.validados])
         IN  IF r.ok
             THEN ParsearDesde([self EXCEPT !.resultados = Append(@, r.rec),
                                            !.traza = t], fila + 1)
             ELSE IF r.clase \in Capturadas
             THEN ParsearDesde(
                     [self EXCEPT !.errores_parseo =
                                     Append(@, <<"Fila ", ToString(fila), ": ">> \o r.msg),
                                  !.traza = t], fila + 1)
             ELSE [self EXCEPT !.traza = t, !.excepcion = r.clase]

(* Variants of the loop of parsear.  "break": the loop ends at the first   *)
(* line that fails.  "parcial": a failing line also appends the dict it    *)
(* was left with.  "frente": entries are inserted at the front.            *)
RECURSIVE ParsearVariante(_, _, _)
ParsearVariante(self, fila, modo) ==
    IF fila > Len(self.lineas)
    THEN self
    ELSE LET r == parse_linea(self.nombre, fila, self.lineas[fila])
             t == Append(self.traza, [fila |-> fila, validados |-> r.validados])
             e == <<"Fila ", ToString(fila), ": ">> \o r.msg
         IN  IF r.ok
             THEN ParsearVariante(
                     [self EXCEPT !.resultados =
                                     IF modo = "frente" THEN <<r.rec>> \o @
                                     ELSE Append(@, r.rec),
                                  !.traza = t], fila + 1, modo)
             ELSE IF r.clase \in Capturadas
             THEN LET s1 == [self EXCEPT
                               !.errores_parseo =
                                   IF modo = "frente" THEN <<e>> \o @ ELSE Append(@, e),
                               !.resultados =
                                   IF modo = "parcial" THEN Append(@, r.rec) ELSE @,
                               !.traza = t]
                  IN  IF modo = "break" THEN s1
                      ELSE ParsearVariante(s1, fila + 1, modo)
             ELSE [self EXCEPT !.traza = t, !.excepcion = r.clase]

parsear_break(self) == ParsearVariante(self, 1, "break")

parsear_parcial(self) == ParsearVariante(self, 1, "parcial")

parsear_frente(self) == ParsearVariante(self, 1, "frente")

(* A variant that runs the length gate itself and parses nothing if it fails *)
parsear_con_gate(self) ==
    IF validar_longitud(self, LONGITUD).ok THEN ParsearDesde(self, 1) ELSE self

(* AfiArchivo.parsear *)
parsear(self) == ParsearDesde(self, 1)

----------------------------------------------------------------------------
(* Input lines.  Each is written field by field, in the order of the       *)
(* parser of its header.                                                   *)

(* A well-formed ETI line *)
LineaETI ==
    <<"E", "T", "I">>
    \o <<"A", "F", "I", "9">>
    \o <<"1">>
    \o <<"P", "R", "O", "G">>
    \o <<"1">>
    \o <<"1", "2", "3", "4", "5", "6", "7", "8">>
    \o Rep(" ", 8)
    \o <<"2", "0", "2", "4", "0", "1", "3", "1">>
    \o <<"1", "2", "0", "5">>
    \o <<"F", "I", "C", "H", "E", "R", "O", "1">>
    \o <<"A", "F", "I">>
    \o <<"N">>
    \o <<" ">>
    \o <<"2", "4">>
    \o <<"0", "1">>
    \o <<"1">>
    \o <<"0", "0", "0", "0", "1">>
    \o <<"0", "0", "0", "1">>
    \o <<" ">>
    \o <<" ">>

(* A well-formed AYN line: primer_apellido is 20 letters *)
LineaAYN ==
    <<"A", "Y", "N">>
    \o <<"G", "A", "R", "C", "I", "A", "G", "A", "R", "C", "I", "A", "G", "A", "R", "C", "I", "A", "G", "A">>
    \o <<"L", "O", "P", "E", "Z", " ", " ", " ", " ", " ", " ", " ", " ", " ", " ", " ", " ", " ", " ", " ">>
    \o <<"A", "N", "A", " ", " ", " ", " ", " ", " ", " ", " ", " ", " ", " ", " ">>
    \o Rep(" ", 12)

(* A well-formed TRA line of a DNI holder *)
LineaTRA ==
    <<"T", "R", "A">>
    \o <<"2", "8">>
    \o <<"0", "1", "2", "3", "4", "5", "6", "7", "8", "9">>
    \o <<"1">>
    \o <<"7", "2", "4">>
    \o <<"0", "0", "0", "0", "0", "1", "2", "3", "4", "5", "6", "7", "8", "Z">>
    \o <<" ", " ", " ">>
    \o Rep(" ", 25)
    \o <<"7", "2", "4">>
    \o <<" ">>
    \o Rep(" ", 5)

(* ETI with version_mensaje (column 7) not numeric *)
LineaETIMalaVersion == Reemplazar(LineaETI, 7, 8, <<"x">>)

(* ETI with fecha (columns 29..36) not numeric *)
LineaETIMalaFecha == Reemplazar(LineaETI, 29, 37, Rep("-", 8))

(* ETI with two failing fields: id_programa blank and fecha not numeric *)
LineaETIDosMalas == Reemplazar(LineaETIMalaFecha, 8, 12, Rep(" ", 4))

(* AYN whose primer_apellido is padded with blanks *)
LineaAYNMala == Reemplazar(LineaAYN, 3, 23, <<"P", "E", "R", "E", "Z">> \o Rep(" ", 15))

(* TRA of a passport holder whose ipf_pais and nacionalidad are no country *)
LineaTRADosMalas ==
    Reemplazar(Reemplazar(Reemplazar(LineaTRA, 15, 16, <<"2">>),
                          16, 19, <<"9", "9", "9">>),
               61, 64, <<"X", "X", "X">>)

(* Lines whose first three characters are no known header *)
LineaXXX == Reemplazar(LineaETI, 0, 3, <<"X", "X", "X">>)

LineaMinusculas == Reemplazar(LineaETI, 0, 3, <<"e", "t", "i">>)

(* Lines of a length other than 70 *)
LineaCorta == SubSeq(LineaETI, 1, 69)

LineaLarga == LineaAYN \o <<" ">>

(* A well-formed EMP line of a DNI holder, accion blank *)
LineaEMP ==
    <<"E", "M", "P">>
    \o <<"0", "1", "1", "1">>
    \o <<"2", "8">>
    \o <<"1", "2", "3", "4", "5", "6", "7", "8", "9">>
    \o <<"1">>
    \o <<"7", "2", "4">>
    \o <<"0", "0", "0", "0", "0", "1", "2", "3", "4", "5", "6", "7", "8", "Z">>
    \o <<" ", " ">>
    \o <<"0", "5", "2", "1">>
    \o <<"0", "8">>
    \o <<"9", "8", "7", "6", "5", "4", "3", "2", "1">>
    \o Rep(" ", 13)
    \o Rep(" ", 3)
    \o <<" ">>

(* A well-formed RZS line *)
LineaRZS ==
    <<"R", "Z", "S">>
    \o <<"1">>
    \o <<"R">>
    \o <<"A", "C", "M", "E", " ", "S", "L">> \o Rep(" ", 48)
    \o <<"1", "2", "3", "4", "5", "6", "7", "8">>
    \o Rep(" ", 2)

(* A well-formed PES line: 33 peculiarities, then the last column *)
LineaPES ==
    <<"P", "E", "S">>
    \o [k \in 1..66 |-> IF k % 2 = 1 THEN "0" ELSE IF k % 4 = 0 THEN "2" ELSE "1"]
    \o <<" ">>

(* A well-formed DOM line *)
LineaDOM ==
    <<"D", "O", "M">>
    \o <<"1">>
    \o <<"C", "L">>
    \o <<"M", "A", "Y", "O", "R">> \o Rep(" ", 31)
    \o <<"0", "0", "0", "1", "2">>
    \o Rep(" ", 2)
    \o Rep(" ", 2)
    \o Rep(" ", 2)
    \o <<"0", "3">>
    \o <<"A", " ", " ">>
    \o <<"9", "1", "5", "5", "5", "0", "1", "0", "1", " ">>
    \o Rep(" ", 2)

(* LDD, FAB and DAM lines *)
LineaLDD ==
    <<"L", "D", "D">>
    \o <<"2", "8", "0", "0", "1">>
    \o <<"M", "A", "D", "R", "I", "D">> \o Rep(" ", 34)
    \o <<"2", "8">>
    \o Rep(" ", 12)
    \o <<"0", "3", "4">>
    \o Rep(" ", 5)

LineaFAB == <<"F", "A", "B">> \o <<"M", "A", " ">> \o Rep("-", 64)

LineaDAM == <<"D", "A", "M">> \o Rep(" ", 67)

(* A well-formed ODL line *)
LineaODL ==
    <<"O", "D", "L">>
    \o <<"9", "9", "0", "0", "0", "0", "0", "0", "0", "1", "2", "3", "4", "5">>
    \o Rep(" ", 6)
    \o <<"4", "1", "2", "1">>
    \o <<"0", "0", "0", "0", "0", "0">>
    \o <<"0", "1", "5", "0">>
    \o <<"5", "0">>
    \o Rep(" ", 5)
    \o <<"7", "2", "4">>
    \o Rep(" ", 3)
    \o <<"2", "0", "2", "5", "1", "2", "3", "1">>
    \o Rep(" ", 12)

(* One well-formed line of each header *)
LineasValidas ==
    {LineaETI, LineaEMP, LineaRZS, LineaPES, LineaTRA, LineaAYN, LineaDOM,
     LineaLDD, LineaFAB, LineaDAM, LineaODL}

(* The well-formed lines with one validated field overwritten, by blanks   *)
(* or by dashes: one line for each validated field of each parser          *)
LineasDeUnCampo ==
    UNION { { Reemplazar(l, EsquemaDeLinea(l)[j].ini, EsquemaDeLinea(l)[j].fin,
                         Rep(x, EsquemaDeLinea(l)[j].fin - EsquemaDeLinea(l)[j].ini)) :
                 j \in {m \in 1..Len(EsquemaDeLinea(l)) :
                           EsquemaDeLinea(l)[m].regla # "crudo"},
                 x \in {" ", "-"} } :
            l \in LineasValidas }

(* ETI with sintaxis "XXXX"; EMP with province "99"; EMP with an action;   *)
(* PES with its last column set, and with peculiarities 5 and 20 unknown   *)
LineaETIMalaSintaxis == Reemplazar(LineaETI, 3, 7, <<"X", "X", "X", "X">>)

LineaEMPMalaProvincia == Reemplazar(LineaEMP, 7, 9, <<"9", "9">>)

LineaEMPAccion == Reemplazar(LineaEMP, 66, 69, <<"C", "T", "A">>)

LineaPESUltima == Reemplazar(LineaPES, 69, 70, <<"Z">>)

LineaPESDosMalas ==
    Reemplazar(Reemplazar(LineaPES, 11, 13, <<"9", "9">>), 41, 43, <<"Z", "Z">>)

(* Identity documents, as written before any padding *)
Documentos ==
    { <<"1", "2", "3", "4", "5", "6", "7", "8", "Z">>,
      <<"0", "1", "2", "3", "4", "5", "6", "7", "Z">>,
      <<"0", "0", "0", "0", "0", "0", "0", "0", "T">>,
      <<"1", "2", "3", "4", "5", "6", "7", "Z">>,
      <<"1", "2", "3", "4", "5", "6", "7", "8", "z">>,
      <<"X", "1", "2", "3", "4", "5", "6", "7", "L">>,
      <<"W", "1", "2", "3", "4", "5", "6", "7", "L">>,
      <<"A", "B", "1", "2", "3", "4", "5", "6">>,
      <<"0", "1", "2", "3", "4", "5">>,
      <<"0", "A", "1", "2", "3", "4", "5", "6", "7">>,
      <<"A", "B", "1", "2">>,
      <<"A", "B", "C", "D", "E", "F", "G", "H", "I", "J">>,
      <<"A", "B", "-", "1", "2", "3", "4">>,
      <<"A", "5", "8", "8", "1", "8", "5", "0", "1">>,
      <<"A", "5", "8", "8", "1", "8", "5", "0", "2">>,
      <<>> }

(* d left-padded with "0" to n columns *)
PadCeros(d, n) == Rep("0", n - Len(d)) \o d

(* EMP and TRA lines of each document type holding each document, padded   *)
(* to the 14 columns of the document field                                 *)
LineasDocumento ==
    { Reemplazar(Reemplazar(LineaEMP, 18, 19, <<t>>), 22, 36, PadCeros(d, 14)) :
         t \in {"1", "2", "6", "9"}, d \in Documentos }
    \cup
    { Reemplazar(Reemplazar(LineaTRA, 15, 16, <<t>>), 19, 33, PadCeros(d, 14)) :
         t \in {"1", "2", "6", "9"}, d \in Documentos }

(* TRA lines of a DNI, a passport and a NIE holder, each with its document *)
LineaTRAPasaporte ==
    Reemplazar(Reemplazar(LineaTRA, 15, 16, <<"2">>), 19, 33,
               PadCeros(<<"A", "B", "1", "2", "3", "4", "5", "6">>, 14))

LineaTRANie ==
    Reemplazar(Reemplazar(LineaTRA, 15, 16, <<"6">>), 19, 33,
               PadCeros(<<"X", "1", "2", "3", "4", "5", "6", "7", "L">>, 14))

(* ... and with each of these in nacionalidad (columns 61..63) *)
Nacionalidades ==
    { <<"7", "2", "4">>, <<"2", "5", "0">>, <<"X", "X", "X">>, <<" ", " ", " ">>,
      <<"7", "2", " ">>, <<"0", "0", "0">> }

LineasNacionalidad ==
    { Reemplazar(l, 61, 64, n) :
         l \in {LineaTRA, LineaTRAPasaporte, LineaTRANie}, n \in Nacionalidades }

(* AYN lines: the well-formed line with one character at the start, in    *)
(* the middle or at the end of primer_apellido (columns 3, 8, 22), or the  *)
(* first of segundo_apellido (column 23), set to a letter, a blank, a      *)
(* hyphen or a digit; with a short surname padded with blanks; and each of *)
(* these with columns 23..69 filled with blanks, hyphens or digits         *)
LineasAYNDeUnCaracter ==
    { Reemplazar(LineaAYN, c, c + 1, <<x>>) :
         c \in {3, 8, 22, 23}, x \in {"a", "Z", "~N", " ", "-", "7"} }

LineasAYN ==
    LET primeras == LineasAYNDeUnCaracter \cup {LineaAYN, LineaAYNMala}
    IN  primeras
        \cup { Reemplazar(l, 23, 70, Rep(x, 47)) : l \in primeras, x \in {" ", "-", "7"} }

(* LDD, FAB and DAM lines: each header before columns 3..69 of every       *)
(* well-formed line, and before blanks, hyphens, digits, lowercase letters *)
LineasSinValidar ==
    { h \o SubSeq(l, 4, 70) :
         h \in {<<"L", "D", "D">>, <<"F", "A", "B">>, <<"D", "A", "M">>},
         l \in LineasValidas \cup {Rep(x, 70) : x \in {" ", "-", "0", "x", "~n"}} }

(* File names *)
Nombres == <<"a.afi", "b.afi", "c.afi", "d.afi">>

(* The sequences of at most n lines drawn from pool *)
RECURSIVE SeqHasta(_, _)
SeqHasta(pool, n) ==
    IF n = 0 THEN {<<>>}
    ELSE LET menores == SeqHasta(pool, n - 1)
         IN  menores \cup {Append(l, x) : l \in {m \in menores : Len(m) = n - 1}, x \in pool}

----------------------------------------------------------------------------
(* A client of AfiArchivo: it holds sessions and calls their methods.      *)
(* Beside the object, a held session records                               *)
(*   parseos   how many times parsear() was called on it                   *)
(*   gate      the last call of validar_longitud: its argument and outcome *)
(*   primera   resultados and errores_parseo as the first parsear left them *)

SinGate == [llamado |-> FALSE, longitud |-> 0, ok |-> TRUE, clase |-> "", msg |-> <<>>]

NuevaSesion(nombre, lineas) ==
    [afi |-> AfiArchivo(nombre, lineas), parseos |-> 0, gate |-> SinGate,
     primera |-> [resultados |-> <<>>, errores_parseo |-> <<>>]]

PoolSesion == {LineaETI, LineaETIMalaVersion, LineaETIDosMalas, LineaAYN,
               LineaAYNMala, LineaTRA, LineaTRADosMalas, LineaXXX,
               LineaMinusculas, LineaCorta, LineaLarga}

PoolPar == {LineaETI, LineaETIMalaVersion, LineaAYN, LineaXXX}

(* The values a caller passes as longitud: the default, and one other *)
Longitudes == {LONGITUD - 1, LONGITUD}

MainParado ==
    /\ afi_data = <<>>
    /\ pc = "sesion"
    /\ idx = 0
    /\ afi = AfiArchivo("", <<>>)
    /\ errores_longitud = <<>>
    /\ errores_parseo = <<>>
    /\ resultados = <<>>
    /\ llamadas = <<>>

(* No validator is called directly *)
SinCaso ==
    [funcion |-> "", archivo |-> "", seccion |-> <<>>, nombre_seccion |-> "",
     fila |-> 0, columna |-> 0, valores |-> <<>>, diccionario |-> <<>>,
     nullable |-> FALSE, tipo |-> <<>>, llamado |-> FALSE, res |-> Ok(<<>>)]

mainVars == <<afi_data, pc, idx, afi, errores_longitud, errores_parseo,
              resultados, llamadas>>

InitSesion ==
    /\ MainParado
    /\ caso = SinCaso
    /\ sesion \in {<<NuevaSesion(Nombres[n], l)>> :
                      n \in 1..2, l \in SeqHasta(PoolSesion, MaxLineas)}

InitPar ==
    /\ MainParado
    /\ caso = SinCaso
    /\ sesion \in {<<NuevaSesion(Nombres[1], l1), NuevaSesion(Nombres[1], l2)>> :
                      l1 \in SeqHasta(PoolPar, MaxLineas),
                      l2 \in SeqHasta(PoolPar, MaxLineas)}

(* self.validar_longitud(longitud) on session k *)
SesionValidarLongitud(k, longitud) ==
    /\ ~sesion[k].gate.llamado
    /\ LET r == validar_longitud(sesion[k].afi, longitud)
       IN  sesion' = [sesion EXCEPT ![k].gate =
                         [llamado |-> TRUE, longitud |-> longitud, ok |-> r.ok,
                          clase |-> r.clase, msg |-> r.msg]]
    /\ UNCHANGED <<mainVars, caso>>

(* self.parsear() on session k, which was parsed fewer than max times *)
SesionParsear(k, max) ==
    /\ sesion[k].parseos < max
    /\ sesion[k].afi.excepcion = ""
    /\ LET a == parsear(sesion[k].afi)
       IN  sesion' = [sesion EXCEPT
                        ![k].afi = a,
                        ![k].parseos = @ + 1,
                        ![k].primera =
                            IF sesion[k].parseos = 0
                            THEN [resultados |-> a.resultados,
                                  errores_parseo |-> a.errores_parseo]
                            ELSE @]
    /\ UNCHANGED <<mainVars, caso>>

NextSesion ==
    \/ \E k \in 1..Len(sesion), longitud \in Longitudes :
          SesionValidarLongitud(k, longitud)
    \/ \E k \in 1..Len(sesion) : SesionParsear(k, MaxParseos)

NextPar == \E k \in 1..Len(sesion) : SesionParsear(k, 1)

SpecSesion == InitSesion /\ [][NextSesion]_vars

SpecPar == InitPar /\ [][NextPar]_vars

(* A client that holds one session whose file has one line of PoolLinea,   *)
(* alone, after a line that yields a Record, or before one that fails, and *)
(* calls parsear() on it once                                              *)
PoolLinea ==
    LineasValidas \cup LineasDeUnCampo \cup LineasDocumento \cup LineasNacionalidad
    \cup LineasAYN \cup LineasSinValidar
    \cup {LineaETIMalaSintaxis, LineaETIDosMalas, LineaEMPMalaProvincia,
          LineaEMPAccion, LineaPESUltima, LineaPESDosMalas, LineaTRADosMalas,
          LineaXXX, LineaMinusculas}

InitLinea ==
    /\ MainParado
    /\ caso = SinCaso
    /\ sesion \in {<<NuevaSesion(Nombres[n], l)>> :
                      n \in 1..2,
                      l \in UNION {{<<x>>, <<LineaLDD, x>>, <<x, LineaXXX>>} :
                                     x \in PoolLinea}}

SpecLinea == InitLinea /\ [][NextPar]_vars

----------------------------------------------------------------------------
(* A caller of the static validators of Validaciones: one call, with       *)
(* arguments of the caller's choice                                        *)

Caso(funcion, archivo, seccion, nombre_seccion, fila, columna, valores, diccionario, nullable, tipo) ==
    [funcion |-> funcion, archivo |-> archivo, seccion |-> seccion,
     nombre_seccion |-> nombre_seccion, fila |-> fila, columna |-> columna,
     valores |-> valores, diccionario |-> diccionario, nullable |-> nullable,
     tipo |-> tipo, llamado |-> FALSE, res |-> Ok(<<>>)]

(* Arguments of validar_valores: the allowed lists the parsers pass, and   *)
(* values that are, contain, or are contained in a member of them          *)
ListasDeValores ==
    { << <<"A", "F", "I", "9">> >>,
      << <<"A", "F", "I">> >>,
      << <<"N">> >>,
      << <<"0">>, <<"1">>, <<"2">>, <<"3">>, <<"4">> >> }

SeccionesDeValores ==
    { <<"A", "F", "I", "9">>, <<"X", "X", "X", "X">>, <<"A", "F", "I">>,
      <<"a", "f", "i", "9">>, <<"A", "F", "I", "9", " ">>, <<"N">>, <<"n">>,
      <<"0">>, <<"4">>, <<"5">>, <<"0", "1">>, <<" ">>, <<>> }

SitiosDeValores ==
    { <<"sintaxis", 3>>, <<"prioridad", 52>>, <<"indicador_rzs", 3>> }

CasosValores ==
    { Caso("validar_valores", Nombres[n], seccion, sitio[1], fila, sitio[2],
           valores, <<>>, FALSE, <<>>) :
         n \in 1..2, seccion \in SeccionesDeValores, sitio \in SitiosDeValores,
         fila \in 1..2, valores \in ListasDeValores }

(* Arguments of validar_diccionario: the province dictionary, a dictionary *)
(* of the caller that has the blank code among its keys, and an empty one  *)
DiccionarioConBlanco ==
    << [clave |-> <<" ", " ">>, etiqueta |-> "Sin provincia"],
       [clave |-> <<"2", "8">>, etiqueta |-> "Madrid"] >>

SeccionesDeDiccionario ==
    { <<"2", "8">>, <<"0", "8">>, <<"9", "9">>, <<" ", " ">>, <<>>, <<" ">>,
      <<"2">>, <<"2", "8", " ">>, <<" ", "8">> }

SitiosDeDiccionario ==
    { <<"seguridad_social_provincia", 7>>, <<"ss_provincia", 3>> }

CasosDiccionario ==
    { Caso("validar_diccionario", Nombres[n], seccion, sitio[1], fila, sitio[2],
           <<>>, diccionario, nullable, <<>>) :
         n \in 1..2, seccion \in SeccionesDeDiccionario,
         sitio \in SitiosDeDiccionario, fila \in 1..2,
         diccionario \in {PROVINCIAS, DiccionarioConBlanco, <<>>},
         nullable \in BOOLEAN }

(* Arguments of validar_tipo_documento: each document bare, padded to 14   *)
(* columns, and behind three zeros; as tipo, the validated value of the    *)
(* type field ("<code>('<label>')") and other strings                      *)
SeccionesDeDocumento ==
    Documentos
    \cup {PadCeros(d, 14) : d \in Documentos}
    \cup {<<"0", "0", "0">> \o d : d \in Documentos}

TiposDeDocumento ==
    { <<"1", "('", "DNI", "')">>, <<"2", "('", "Pasaporte", "')">>,
      <<"6", "('", "NIE", "')">>, <<"9", "('", "CIF", "')">>,
      <<"1">>, <<"1", "0">>, <<"3">>, <<"0">>, <<"L">>, <<" ">> }

SitiosDeDocumento ==
    { <<"empresario_numero_identificacion", 22>>, <<"ipf_alfaclave", 19>> }

CasosDocumento ==
    { Caso("validar_tipo_documento", Nombres[n], seccion, sitio[1], fila,
           sitio[2], <<>>, <<>>, FALSE, tipo) :
         n \in 1..2, seccion \in SeccionesDeDocumento,
         sitio \in SitiosDeDocumento, fila \in 1..2, tipo \in TiposDeDocumento }

InitValidador ==
    /\ MainParado
    /\ sesion = <<>>
    /\ caso \in CasosValores \cup CasosDiccionario \cup CasosDocumento

(* Validaciones.validar_valores(archivo, seccion, nombre_seccion, fila, columna, valores) *)
LlamarValidarValores ==
    /\ caso.funcion = "validar_valores"
    /\ ~caso.llamado
    /\ caso' = [caso EXCEPT
                  !.llamado = TRUE,
                  !.res = validar_valores(caso.archivo, caso.seccion,
                                          caso.nombre_seccion, caso.fila,
                                          caso.columna, caso.valores)]
    /\ UNCHANGED <<mainVars, sesion>>

(* Validaciones.validar_diccionario(archivo, seccion, nombre_seccion, fila, *)
(* columna, diccionario, nullable)                                          *)
LlamarValidarDiccionario ==
    /\ caso.funcion = "validar_diccionario"
    /\ ~caso.llamado
    /\ caso' = [caso EXCEPT
                  !.llamado = TRUE,
                  !.res = validar_diccionario(caso.archivo, caso.seccion,
                                              caso.nombre_seccion, caso.fila,
                                              caso.columna, caso.diccionario,
                                              caso.nullable)]
    /\ UNCHANGED <<mainVars, sesion>>

(* Validaciones.validar_tipo_documento(archivo, seccion, nombre_seccion,   *)
(* fila, columna, tipo)                                                    *)
LlamarValidarTipoDocumento ==
    /\ caso.funcion = "validar_tipo_documento"
    /\ ~caso.llamado
    /\ caso' = [caso EXCEPT
                  !.llamado = TRUE,
                  !.res = validar_tipo_documento(caso.archivo, caso.seccion,
                                                 caso.nombre_seccion, caso.fila,
                                                 caso.columna, caso.tipo)]
    /\ UNCHANGED <<mainVars, sesion>>

NextValidador ==
    \/ LlamarValidarValores
    \/ LlamarValidarDiccionario
    \/ LlamarValidarTipoDocumento

SpecValidador == InitValidador /\ [][NextValidador]_vars

----------------------------------------------------------------------------
(* main.py: the file loop of main().  A dict is the sequence of its        *)
(* [clave, valor] entries in insertion order.                              *)

EnDict(d, clave) == \E k \in 1..Len(d) : d[k].clave = clave

ValorDict(d, clave) == d[CHOOSE k \in 1..Len(d) : d[k].clave = clave].valor

(* d[clave] = valor *)
PonerDict(d, clave, valor) ==
    IF EnDict(d, clave)
    THEN [k \in 1..Len(d) |->
            IF d[k].clave = clave THEN [clave |-> clave, valor |-> valor] ELSE d[k]]
    ELSE Append(d, [clave |-> clave, valor |-> valor])

PoolLote == {LineaETI, LineaETIMalaVersion, LineaCorta}

(* afi_data = cargar_afi_desde_carpeta(): the files of the folder, each    *)
(* under its own name, in the order the folder lists them                  *)
Lotes ==
    UNION { [1..n -> SeqHasta(PoolLote, MaxLineas)] : n \in 0..MaxArchivos }

Init ==
    /\ afi_data \in {[k \in 1..Len(c) |-> [archivo |-> Nombres[k], lineas |-> c[k]]] :
                        c \in Lotes}
    /\ pc = "for"
    /\ idx = 0
    /\ afi = AfiArchivo("", <<>>)
    /\ errores_longitud = <<>>
    /\ errores_parseo = <<>>
    /\ resultados = <<>>
    /\ llamadas = <<>>
    /\ sesion = <<>>
    /\ caso = SinCaso

(* for archivo, lineas in afi_data.items(): afi = AfiArchivo(archivo, lineas) *)
MainSiguiente ==
    /\ pc = "for"
    /\ idx < Len(afi_data)
    /\ idx' = idx + 1
    /\ afi' = AfiArchivo(afi_data[idx + 1].archivo, afi_data[idx + 1].lineas)
    /\ pc' = "validar"
    /\ UNCHANGED <<afi_data, errores_longitud, errores_parseo, resultados,
                   llamadas, sesion, caso>>

(* Variants of the except clause: without its continue, and with a break *)
MainValidarLongitudVariante(destino) ==
    /\ pc = "validar"
    /\ LET r == validar_longitud(afi, LONGITUD)
       IN  /\ llamadas' = Append(llamadas, <<"validar_longitud", afi.nombre>>)
           /\ IF ~r.ok /\ r.clase = "LongitudLineaError"
              THEN /\ errores_longitud' =
                          PonerDict(errores_longitud, afi.nombre, <<r.msg>>)
                   /\ pc' = destino
              ELSE /\ errores_longitud' = errores_longitud
                   /\ pc' = "parsear"
    /\ UNCHANGED <<afi_data, idx, afi, errores_parseo, resultados, sesion, caso>>

MainValidarLongitud_sin_continue == MainValidarLongitudVariante("parsear")

MainValidarLongitud_break == MainValidarLongitudVariante("fin")

(* try: afi.validar_longitud()                                             *)
(* except LongitudLineaError as e: errores_longitud[archivo] = [str(e)]; continue *)
MainValidarLongitud ==
    /\ pc = "validar"
    /\ LET r == validar_longitud(afi, LONGITUD)
       IN  /\ llamadas' = Append(llamadas, <<"validar_longitud", afi.nombre>>)
           /\ IF ~r.ok /\ r.clase = "LongitudLineaError"
              THEN /\ errores_longitud' =
                          PonerDict(errores_longitud, afi.nombre, <<r.msg>>)
                   /\ pc' = "for"
              ELSE /\ errores_longitud' = errores_longitud
                   /\ pc' = "parsear"
    /\ UNCHANGED <<afi_data, idx, afi, errores_parseo, resultados, sesion, caso>>

(* afi.parsear() *)
MainParsear ==
    /\ pc = "parsear"
    /\ afi' = parsear(afi)
    /\ llamadas' = Append(llamadas, <<"parsear", afi.nombre>>)
    /\ pc' = IF afi'.excepcion = "" THEN "guardar" ELSE "abortado"
    /\ UNCHANGED <<afi_data, idx, errores_longitud, errores_parseo, resultados,
                   sesion, caso>>

(* resultados[archivo] = afi.resultados                                    *)
(* if afi.errores_parseo: errores_parseo[archivo] = afi.errores_parseo     *)
MainGuardar ==
    /\ pc = "guardar"
    /\ resultados' = PonerDict(resultados, afi.nombre, afi.resultados)
    /\ errores_parseo' =
          IF afi.errores_parseo # <<>>
          THEN PonerDict(errores_parseo, afi.nombre, afi.errores_parseo)
          ELSE errores_parseo
    /\ pc' = "for"
    /\ UNCHANGED <<afi_data, idx, afi, errores_longitud, llamadas, sesion, caso>>

(* The loop is over: the reports are printed, no dict changes *)
MainInforme ==
    /\ pc = "for"
    /\ idx = Len(afi_data)
    /\ pc' = "fin"
    /\ UNCHANGED <<afi_data, idx, afi, errores_longitud, errores_parseo,
                   resultados, llamadas, sesion, caso>>

Next ==
    \/ MainSiguiente
    \/ MainValidarLongitud
    \/ MainParsear
    \/ MainGuardar
    \/ MainInforme

Spec == Init /\ [][Next]_vars

----------------------------------------------------------------------------
(* Properties *)

Rango(f) == {f[k] : k \in 1..Len(f)}

(* The 1-based numbers of the lines whose length is not n *)
LineasMalas(lineas, n) == {i \in 1..Len(lineas) : Len(lineas[i]) # n}

(* The sessions the client has called parsear() on at least once *)
Parseadas == {k \in 1..Len(sesion) : sesion[k].parseos >= 1}

(* C1: validar_longitudes raises LongitudLineaError exactly when some line *)
(* has a length other than longitud; the error then names the file, the    *)
(* number of the first such line, that line's length and the expected      *)
(* length; otherwise the call returns without error.                       *)
C1_LongitudPrimeraLinea ==
    \A k \in 1..Len(sesion) :
       LET g == sesion[k].gate
           a == sesion[k].afi
           malas == LineasMalas(a.lineas, g.longitud)
       IN  g.llamado =>
             /\ g.ok <=> (malas = {})
             /\ ~g.ok =>
                  /\ g.clase = "LongitudLineaError"
                  /\ \E i \in malas :
                        /\ \A j \in malas : i <= j
                        /\ g.msg = <<a.nombre, ", linea ", ToString(i), ": longitud ",
                                     ToString(Len(a.lineas[i])), " != ",
                                     ToString(g.longitud)>>

(* The gate was called on a file with two lines of a wrong length, of      *)
(* different lengths, and raised *)
C1_Witness ==
    \E k \in 1..Len(sesion) :
       /\ sesion[k].gate.llamado
       /\ ~sesion[k].gate.ok
       /\ sesion[k].gate.longitud = LONGITUD
       /\ sesion[k].afi.lineas = <<LineaLarga, LineaCorta>>

(* The files of the batch that main has finished with *)
Procesados ==
    {k \in 1..Len(afi_data) : k < idx \/ (k = idx /\ pc \in {"for", "fin"})}

TieneLineaMala(k) == LineasMalas(afi_data[k].lineas, LONGITUD) # {}

(* C2: in the file loop of main, a file with a line whose length is not 70 *)
(* gets exactly one length error, parsear is never called on it, none of   *)
(* its lines is parsed, and it has no entry in resultados nor in           *)
(* errores_parseo.                                                         *)
C2_ArchivoMalNoSeParsea ==
    \A k \in 1..Len(afi_data) :
       TieneLineaMala(k) =>
          LET archivo == afi_data[k].archivo IN
          /\ <<"parsear", archivo>> \notin Rango(llamadas)
          /\ ~EnDict(resultados, archivo)
          /\ ~EnDict(errores_parseo, archivo)
          /\ (k = idx) => (afi.traza = <<>> /\ afi.resultados = <<>>
                            /\ afi.errores_parseo = <<>>)
          /\ (k \in Procesados) =>
                /\ Cardinality({j \in 1..Len(errores_longitud) :
                                   errores_longitud[j].clave = archivo}) = 1
                /\ Len(ValorDict(errores_longitud, archivo)) = 1

(* The loop is over a batch that holds a file whose second line is short   *)
(* and whose first line is well formed; its length error is recorded       *)
C2_Witness ==
    /\ pc = "fin"
    /\ \E k \in 1..Len(afi_data) :
          /\ afi_data[k].lineas = <<LineaETI, LineaCorta>>
          /\ EnDict(errores_longitud, afi_data[k].archivo)

(* C3: as claimed, parsear() on a session holding a line whose length is   *)
(* not 70 parses no line: resultados and errores_parseo stay empty.        *)
C3_ParsearConGate ==
    \A k \in Parseadas :
       LineasMalas(sesion[k].afi.lineas, LONGITUD) # {} =>
          /\ sesion[k].afi.resultados = <<>>
          /\ sesion[k].afi.errores_parseo = <<>>

(* C3, amended: parsear() runs no length gate.  On a session holding a     *)
(* line whose length is not 70 it hands every line to parse_linea, whether *)
(* or not validar_longitud() was called before and whatever it raised, and *)
(* every line adds one entry to resultados or to errores_parseo.           *)
C3_ParsearSinGate ==
    \A k \in 1..Len(sesion) :
       LET a == sesion[k].afi IN
       (sesion[k].parseos = 1 /\ LineasMalas(a.lineas, LONGITUD) # {}) =>
          /\ [j \in 1..Len(a.traza) |-> a.traza[j].fila] =
                [j \in 1..Len(a.lineas) |-> j]
          /\ Len(a.resultados) + Len(a.errores_parseo) = Len(a.lineas)

(* validar_longitud() raised on a session, parsear() was called on it      *)
(* afterwards or before, and the short line produced a Record              *)
C3_Witness ==
    \E k \in 1..Len(sesion) :
       /\ sesion[k].gate.llamado
       /\ ~sesion[k].gate.ok
       /\ sesion[k].gate.longitud = LONGITUD
       /\ sesion[k].parseos = 1
       /\ sesion[k].afi.lineas = <<LineaCorta>>
       /\ Len(sesion[k].afi.resultados) = 1

(* C4: in a batch, a length error in one file never prevents the          *)
(* processing of another: every file whose lines all have length 70 is     *)
(* parsed with parsear() and its results are stored, one entry per line,   *)
(* and the loop ends only when every file of the batch has been processed. *)
C4_ErrorDeLongitudNoCruza ==
    /\ \A k \in Procesados :
          ~TieneLineaMala(k) =>
             LET archivo == afi_data[k].archivo
                 errores == IF EnDict(errores_parseo, archivo)
                            THEN ValorDict(errores_parseo, archivo) ELSE <<>>
             IN  /\ <<"parsear", archivo>> \in Rango(llamadas)
                 /\ EnDict(resultados, archivo)
                 /\ Len(ValorDict(resultados, archivo)) + Len(errores)
                       = Len(afi_data[k].lineas)
    /\ pc = "fin" => Procesados = 1..Len(afi_data)

(* The loop is over a batch whose first file failed the length gate and    *)
(* whose second file, of two lines of length 70, has its results stored    *)
C4_Witness ==
    /\ pc = "fin"
    /\ Len(afi_data) = 2
    /\ TieneLineaMala(1)
    /\ EnDict(errores_longitud, afi_data[1].archivo)
    /\ afi_data[2].lineas = <<LineaETI, LineaETIMalaVersion>>
    /\ EnDict(resultados, afi_data[2].archivo)
    /\ Len(ValorDict(resultados, afi_data[2].archivo)) = 1

(* The eleven headers *)
OnceCabeceras ==
    { <<"E", "T", "I">>, <<"E", "M", "P">>, <<"R", "Z", "S">>, <<"P", "E", "S">>,
      <<"T", "R", "A">>, <<"A", "Y", "N">>, <<"D", "O", "M">>, <<"L", "D", "D">>,
      <<"F", "A", "B">>, <<"D", "A", "M">>, <<"O", "D", "L">> }

(* The entries of errs that start with "Fila i: " *)
ConPrefijo(errs, i) ==
    {j \in 1..Len(errs) :
        /\ Len(errs[j]) >= 3
        /\ SubSeq(errs[j], 1, 3) = <<"Fila ", ToString(i), ": ">>}

(* The lines of a session whose first three characters are no known header *)
SinCabecera(a) ==
    {i \in 1..Len(a.lineas) : SubSeq(a.lineas[i], 1, 3) \notin OnceCabeceras}

(* C5: for a line whose first 3 characters are not one of the eleven       *)
(* headers, parse_linea raises an error naming the file, the line number   *)
(* and the 3-character code; parsear() records the line in errores_parseo  *)
(* and appends no Record for it.                                           *)
C5_CabeceraDesconocida ==
    \A k \in 1..Len(sesion) :
       LET a == sesion[k].afi IN
       sesion[k].parseos = 1 =>
          /\ \A i \in SinCabecera(a) :
                LET r == parse_linea(a.nombre, i, a.lineas[i])
                    m == <<a.nombre, ", fila ", ToString(i),
                           ": cabecera desconocida '">>
                         \o SubSeq(a.lineas[i], 1, 3) \o <<"'">>
                IN  /\ ~r.ok
                    /\ r.msg = m
                    /\ \E j \in 1..Len(a.errores_parseo) :
                          a.errores_parseo[j] = <<"Fila ", ToString(i), ": ">> \o m
                    /\ a.traza[i].validados = <<>>
          /\ Len(a.resultados) + Cardinality(SinCabecera(a)) <= Len(a.lineas)

(* A parsed session of a line with header XXX after a well-formed line *)
C5_Witness ==
    \E k \in 1..Len(sesion) :
       /\ sesion[k].parseos = 1
       /\ sesion[k].afi.lineas = <<LineaETI, LineaXXX>>
       /\ Len(sesion[k].afi.errores_parseo) = 1
       /\ Len(sesion[k].afi.resultados) = 1

(* Each field of a line validated on its own: the fields that depend on a  *)
(* sibling get the sibling's own validated value                           *)
Contexto(nombre, fila, linea, esquema) ==
    [m \in 1..Len(esquema) |->
        <<esquema[m].clave,
          IF esquema[m].regla \in {"tipo_documento", "nacionalidad"} THEN <<>>
          ELSE ValidarCampo(nombre, fila, linea, esquema[m], <<>>).val>>]

SoloCampo(nombre, fila, linea, esquema, j) ==
    ValidarCampo(nombre, fila, linea, esquema[j],
                 Contexto(nombre, fila, linea, esquema))

CamposQueFallan(nombre, fila, linea, esquema) ==
    {j \in 1..Len(esquema) : ~SoloCampo(nombre, fila, linea, esquema, j).ok}

(* The keys of the fields 1..p of a schema whose statement calls a validator *)
ClavesValidadas(nombre, fila, linea, esquema, p) ==
    LET ctx == Contexto(nombre, fila, linea, esquema)
        llama(c) == LlamaValidador(c, ctx)
        cs == SelectSeq(SubSeq(esquema, 1, p), llama)
    IN  [j \in 1..Len(cs) |-> cs[j].clave]

(* C6: within a line the fields are validated in schema order and the      *)
(* validation stops at the first field whose validator fails: the line     *)
(* has exactly one entry in errores_parseo, "Fila <n>: " followed by the   *)
(* message of that first failing field, and no validator of a later field  *)
(* is run.                                                                 *)
C6_PrimerFallo ==
    \A k \in 1..Len(sesion) :
       LET a == sesion[k].afi IN
       sesion[k].parseos = 1 =>
          \A i \in (1..Len(a.lineas)) \ SinCabecera(a) :
             LET esquema == EsquemaDeLinea(a.lineas[i])
                 fallan == CamposQueFallan(a.nombre, i, a.lineas[i], esquema)
             IN  fallan # {} =>
                   LET p == CHOOSE j \in fallan : \A m \in fallan : j <= m
                       e == ConPrefijo(a.errores_parseo, i)
                   IN  /\ Cardinality(e) = 1
                       /\ \A j \in e :
                             a.errores_parseo[j] =
                                <<"Fila ", ToString(i), ": ">>
                                \o SoloCampo(a.nombre, i, a.lineas[i], esquema, p).msg
                       /\ a.traza[i].validados =
                             ClavesValidadas(a.nombre, i, a.lineas[i], esquema, p)

(* A parsed session of an ETI line with two failing fields, id_programa    *)
(* and fecha: its one error is the one of id_programa *)
C6_Witness ==
    \E k \in 1..Len(sesion) :
       /\ sesion[k].parseos = 1
       /\ sesion[k].afi.lineas = <<LineaETI, LineaETIDosMalas>>
       /\ Len(sesion[k].afi.errores_parseo) = 1
       /\ sesion[k].afi.errores_parseo[1][9] = "id_programa"
       /\ sesion[k].afi.traza[2].validados =
             <<"sintaxis", "version_mensaje", "id_programa">>

(* The lines of a session that have an entry in its errores_parseo *)
ConError(a) ==
    {i \in 1..Len(a.lineas) : ConPrefijo(a.errores_parseo, i) # {}}

(* A Record holds every key of the schema of its header, in schema order *)
RegistroCompleto(rec) ==
    /\ Len(rec) >= 1
    /\ rec[1][1] = "cabecera"
    /\ rec[1][2] \in OnceCabeceras
    /\ LET esquema == EsquemaDeLinea(rec[1][2])
       IN  [j \in 1..Len(rec) |-> rec[j][1]] =
              [j \in 1..Len(esquema) |-> esquema[j].clave]

(* C7: after parsear() has run once on a fresh session of N lines, every   *)
(* line has added exactly one entry to exactly one of the two lists: one   *)
(* complete Record to resultados or one string to errores_parseo, never    *)
(* both, never a partial Record; so the two lengths add up to N.           *)
C7_UnaEntradaPorLinea ==
    \A k \in 1..Len(sesion) :
       LET a == sesion[k].afi IN
       sesion[k].parseos = 1 =>
          /\ Len(a.resultados) + Len(a.errores_parseo) = Len(a.lineas)
          /\ \A i \in 1..Len(a.lineas) :
                Cardinality(ConPrefijo(a.errores_parseo, i)) <= 1
          /\ Len(a.errores_parseo) = Cardinality(ConError(a))
          /\ \A j \in 1..Len(a.resultados) : RegistroCompleto(a.resultados[j])

(* A parsed session of one line that fails and one that yields a Record *)
C7_Witness ==
    \E k \in 1..Len(sesion) :
       /\ sesion[k].parseos = 1
       /\ sesion[k].afi.lineas = <<LineaAYNMala, LineaTRA>>
       /\ Len(sesion[k].afi.resultados) = 1
       /\ Len(sesion[k].afi.errores_parseo) = 1

(* A line is valid when its header is known and none of its fields fails *)
Valida(a, i) ==
    /\ i \notin SinCabecera(a)
    /\ CamposQueFallan(a.nombre, i, a.lineas[i], EsquemaDeLinea(a.lineas[i])) = {}

(* The numbers of the valid lines, and of the others, in increasing order *)
IndicesValidos(a) ==
    LET valida(i) == Valida(a, i)
    IN  SelectSeq([i \in 1..Len(a.lineas) |-> i], valida)

IndicesInvalidos(a) ==
    LET invalida(i) == ~Valida(a, i)
    IN  SelectSeq([i \in 1..Len(a.lineas) |-> i], invalida)

(* C8: after parsear() on a fresh session of N lines, M of them valid,     *)
(* resultados holds the M Records of the valid lines in the order of the   *)
(* lines, and errores_parseo the N-M strings of the invalid lines in the   *)
(* order of the lines: their "Fila <n>" numbers increase strictly.         *)
C8_OrdenDeLineas ==
    \A k \in 1..Len(sesion) :
       LET a == sesion[k].afi
           v == IndicesValidos(a)
           w == IndicesInvalidos(a)
       IN  sesion[k].parseos = 1 =>
             /\ Len(a.resultados) = Len(v)
             /\ Len(a.errores_parseo) = Len(w)
             /\ \A j \in 1..Len(v) :
                   a.resultados[j] = parse_linea(a.nombre, v[j], a.lineas[v[j]]).rec
             /\ \A j \in 1..Len(w) :
                   SubSeq(a.errores_parseo[j], 1, 3) = <<"Fila ", ToString(w[j]), ": ">>

(* A parsed session of two valid lines of different headers: the Records   *)
(* are in the order of the lines *)
C8_Witness ==
    \E k \in 1..Len(sesion) :
       /\ sesion[k].parseos = 1
       /\ sesion[k].afi.lineas = <<LineaAYN, LineaETI>>
       /\ Len(sesion[k].afi.resultados) = 2
       /\ sesion[k].afi.resultados[1][1][2] = <<"A", "Y", "N">>
       /\ sesion[k].afi.resultados[2][1][2] = <<"E", "T", "I">>

(* What the two lists of a parsed session hold for line i *)
ResultadoDeLinea(a, i) ==
    LET e == ConPrefijo(a.errores_parseo, i)
        pos == i - Cardinality({m \in 1..(i - 1) : ConPrefijo(a.errores_parseo, m) # {}})
    IN  IF e # {}
        THEN [ok |-> FALSE, rec |-> <<>>, err |-> a.errores_parseo[CHOOSE j \in e : TRUE]]
        ELSE IF pos <= Len(a.resultados)
        THEN [ok |-> TRUE, rec |-> a.resultados[pos], err |-> <<>>]
        ELSE [ok |-> FALSE, rec |-> <<>>, err |-> <<"sin entrada">>]

(* C9: the outcome of line i depends only on the file name, on i and on    *)
(* the content of line i: two sessions of the same file name that agree on *)
(* line i and differ in any other line (or in their number of lines) hold  *)
(* the same Record or the same error string for line i; and a line that    *)
(* fails does not stop the lines after it from being processed.            *)
C9_AislamientoDeLineas ==
    /\ \A k \in Parseadas :
          [j \in 1..Len(sesion[k].afi.traza) |-> sesion[k].afi.traza[j].fila] =
             [j \in 1..Len(sesion[k].afi.lineas) |-> j]
    /\ \A k1, k2 \in Parseadas :
          LET a1 == sesion[k1].afi
              a2 == sesion[k2].afi
          IN  a1.nombre = a2.nombre =>
                \A i \in 1..Min(Len(a1.lineas), Len(a2.lineas)) :
                   a1.lineas[i] = a2.lineas[i] =>
                      ResultadoDeLinea(a1, i) = ResultadoDeLinea(a2, i)

(* Two parsed sessions that agree on line 2 only: line 1 fails in the      *)
(* first and yields a Record in the second *)
C9_Witness ==
    /\ Len(sesion) = 2
    /\ Parseadas = {1, 2}
    /\ sesion[1].afi.lineas = <<LineaXXX, LineaAYN>>
    /\ sesion[2].afi.lineas = <<LineaETI, LineaAYN>>
    /\ ResultadoDeLinea(sesion[1].afi, 2) = ResultadoDeLinea(sesion[2].afi, 2)
    /\ ResultadoDeLinea(sesion[1].afi, 2).ok

(* C10: a second parsear() on the same session leaves resultados and       *)
(* errores_parseo as the first call left them.                             *)
C10_SegundoParsearIgual ==
    \A k \in 1..Len(sesion) :
       sesion[k].parseos >= 2 =>
          /\ sesion[k].afi.resultados = sesion[k].primera.resultados
          /\ sesion[k].afi.errores_parseo = sesion[k].primera.errores_parseo

(* The field of a schema that is stored under clave *)
CampoDeClave(esquema, clave) ==
    esquema[CHOOSE j \in 1..Len(esquema) : esquema[j].clave = clave]

(* The field of line i whose validator raised: the last one that was called *)
CampoFallido(a, i) ==
    CampoDeClave(EsquemaDeLinea(a.lineas[i]),
                 a.traza[i].validados[Len(a.traza[i].validados)])

(* The lines of a parsed session that failed on a field *)
FallanEnCampo(a) ==
    {i \in (1..Len(a.lineas)) \ SinCabecera(a) :
        ~ResultadoDeLinea(a, i).ok /\ a.traza[i].validados # <<>>}

(* C11: every field-level validation error identifies the field that       *)
(* failed: the message names the file, the line number, the field under    *)
(* the name it has in the Record of its schema, the field's own 1-based    *)
(* start column (slice start + 1) and the raw value of the field; for      *)
(* every validated field of the eleven schemas.                            *)
C11_ErrorIdentificaCampo ==
    \A k \in 1..Len(sesion) :
       LET a == sesion[k].afi IN
       sesion[k].parseos = 1 =>
          \A i \in FallanEnCampo(a) :
             LET c == CampoFallido(a, i)
                 e == ResultadoDeLinea(a, i).err
                 raw == SubSeq(a.lineas[i], c.ini + 1, c.fin)
             IN  /\ e[5] = a.nombre
                 /\ e[7] = ToString(i)
                 /\ e[9] = c.clave
                 /\ e[11] = ToString(c.ini + 1)
                 /\ Len(e) >= 12 + Len(raw)
                 /\ SubSeq(e, 13, 12 + Len(raw)) = raw

(* C12: for a line that satisfies every constraint of its schema, the      *)
(* Record has exactly the field names of the schema in declaration order,  *)
(* the first being cabecera with the header of the line; every field       *)
(* looked up in a dictionary whose slice is not blank has the value        *)
(* "<raw code>('<label>')" with the label of its dictionary, and every     *)
(* pass-through field has the raw slice of its column range.               *)
C12_RegistroDeLineaValida ==
    \A k \in 1..Len(sesion) :
       LET a == sesion[k].afi IN
       sesion[k].parseos = 1 =>
          \A i \in 1..Len(a.lineas) :
             Valida(a, i) =>
                LET esquema == EsquemaDeLinea(a.lineas[i])
                    r == ResultadoDeLinea(a, i)
                    raw(j) == SubSeq(a.lineas[i], esquema[j].ini + 1, esquema[j].fin)
                IN  /\ r.ok
                    /\ [j \in 1..Len(r.rec) |-> r.rec[j][1]] =
                          [j \in 1..Len(esquema) |-> esquema[j].clave]
                    /\ r.rec[1] = <<"cabecera", SubSeq(a.lineas[i], 1, 3)>>
                    /\ \A j \in 1..Len(esquema) :
                          /\ (esquema[j].regla = "diccionario" /\ ~EsBlanco(raw(j))) =>
                                r.rec[j][2] =
                                   raw(j) \o <<"('", Etiqueta(raw(j), esquema[j].dic), "')">>
                          /\ esquema[j].regla = "crudo" => r.rec[j][2] = raw(j)

(* A parsed EMP line with an action: its Record has the thirteen fields of *)
(* the EMP parser, the province and the action with their labels and the   *)
(* qualifier as its two raw columns                                        *)
C12_Witness ==
    \E k \in 1..Len(sesion) :
       /\ sesion[k].parseos = 1
       /\ sesion[k].afi.lineas = <<LineaEMPAccion>>
       /\ Len(sesion[k].afi.resultados) = 1
       /\ Len(sesion[k].afi.resultados[1]) = 14
       /\ sesion[k].afi.resultados[1][1] = <<"cabecera", <<"E", "M", "P">>>>
       /\ sesion[k].afi.resultados[1][3] =
             <<"seguridad_social_provincia", <<"2", "8", "('", "Madrid", "')">>>>
       /\ sesion[k].afi.resultados[1][8] = <<"empresario_calificador", <<" ", " ">>>>
       /\ sesion[k].afi.resultados[1][13] =
             <<"accion", <<"C", "T", "A", "('", "Cambio de titularidad", "')">>>>

(* C13: no malformed input data aborts the parse pass: on every sequence   *)
(* of 70-character lines, whatever their headers and fields, parsear()     *)
(* ends without an exception leaving it, every line was handed to          *)
(* parse_linea, and every line that is not valid has its entry in          *)
(* errores_parseo.                                                         *)
C13_ParsearNoAborta ==
    \A k \in 1..Len(sesion) :
       LET a == sesion[k].afi IN
       (sesion[k].parseos = 1 /\ LineasMalas(a.lineas, LONGITUD) = {}) =>
          /\ a.excepcion = ""
          /\ Len(a.traza) = Len(a.lineas)
          /\ Len(a.resultados) + Len(a.errores_parseo) = Len(a.lineas)
          /\ \A i \in 1..Len(a.lineas) :
                ~Valida(a, i) => Cardinality(ConPrefijo(a.errores_parseo, i)) = 1

(* A parsed session of a line that fails on a field and a line of unknown  *)
(* header: no exception left parsear and both lines have their error       *)
C13_Witness ==
    \E k \in 1..Len(sesion) :
       /\ sesion[k].parseos = 1
       /\ sesion[k].afi.lineas = <<LineaETIMalaSintaxis, LineaXXX>>
       /\ sesion[k].afi.excepcion = ""
       /\ Len(sesion[k].afi.errores_parseo) = 2
       /\ sesion[k].afi.resultados = <<>>

(* The part of an error message that has the length of l and ends n       *)
(* pieces before the end of the message                                    *)
Cola(msg, l, n) ==
    IF Len(msg) < Len(l) + n THEN <<>>
    ELSE SubSeq(msg, Len(msg) - n - Len(l) + 1, Len(msg) - n)

(* C14: validar_valores accepts the value, and returns it unchanged, if    *)
(* and only if it is equal to one member of the allowed list; otherwise    *)
(* the error names the field, its 1-based column and lists the allowed     *)
(* values.  Sintaxis "AFI9" is accepted unchanged; sintaxis "XXXX" fails   *)
(* with an error naming sintaxis, column 4 and ['AFI9'].                   *)
C14_ValoresPermitidos ==
    (caso.funcion = "validar_valores" /\ caso.llamado) =>
       LET r == caso.res IN
       /\ r.ok <=> caso.seccion \in Rango(caso.valores)
       /\ r.ok => r.val = caso.seccion
       /\ ~r.ok =>
             /\ r.clase = "ValidacionError"
             /\ r.msg[6] = caso.nombre_seccion
             /\ r.msg[8] = ToString(caso.columna + 1)
             /\ Cola(r.msg, ReprLista(caso.valores), 1) = ReprLista(caso.valores)
       /\ (caso.valores = << <<"A", "F", "I", "9">> >> /\ caso.nombre_seccion = "sintaxis") =>
             /\ caso.seccion = <<"A", "F", "I", "9">> =>
                   r.ok /\ r.val = <<"A", "F", "I", "9">>
             /\ caso.seccion = <<"X", "X", "X", "X">> =>
                   /\ ~r.ok
                   /\ r.msg[6] = "sintaxis"
                   /\ r.msg[8] = "4"
                   /\ Cola(r.msg, <<"[", "'", "A", "F", "I", "9", "'", "]">>, 1)
                         = <<"[", "'", "A", "F", "I", "9", "'", "]">>

(* validar_valores was called for sintaxis "XXXX" against ["AFI9"] and     *)
(* raised                                                                  *)
C14_Witness ==
    /\ caso.funcion = "validar_valores"
    /\ caso.llamado
    /\ caso.seccion = <<"X", "X", "X", "X">>
    /\ caso.valores = << <<"A", "F", "I", "9">> >>
    /\ caso.nombre_seccion = "sintaxis"
    /\ caso.columna = 3
    /\ ~caso.res.ok
    /\ caso.res.msg[8] = "4"

(* C15: validar_diccionario returns the value unchanged when nullable is   *)
(* true and the value is empty or blank; in every other case it accepts    *)
(* the value if and only if the value is not blank and is a key of the     *)
(* dictionary, and the error of a rejected value carries the value and the *)
(* list of all the keys of the dictionary (province "99" fails citing "99" *)
(* and every province code).  A blank value with nullable false fails even *)
(* when the blank string is a key of the dictionary.                       *)
C15_BusquedaEnDiccionario ==
    (caso.funcion = "validar_diccionario" /\ caso.llamado) =>
       LET r == caso.res
           d == caso.diccionario
           blanco == \A k \in 1..Len(caso.seccion) : caso.seccion[k] = " "
           claves == [k \in 1..Len(d) |-> d[k].clave]
       IN  /\ (caso.nullable /\ blanco) => (r.ok /\ r.val = caso.seccion)
           /\ ~(caso.nullable /\ blanco) =>
                 (r.ok <=> (~blanco /\ caso.seccion \in Rango(claves)))
           /\ (~caso.nullable /\ blanco) => ~r.ok
           /\ ~r.ok =>
                 /\ r.clase = "ValidacionError"
                 /\ Len(r.msg) >= 9 + Len(caso.seccion)
                 /\ SubSeq(r.msg, 10, 9 + Len(caso.seccion)) = caso.seccion
                 /\ Cola(r.msg, ReprLista(claves), 0) = ReprLista(claves)
           /\ (caso.seccion = <<"9", "9">> /\ d = PROVINCIAS) =>
                 /\ ~r.ok
                 /\ SubSeq(r.msg, 10, 11) = <<"9", "9">>
                 /\ \A k \in 1..Len(PROVINCIAS) :
                       \E j \in 12..(Len(r.msg) - 1) :
                          SubSeq(r.msg, j, j + 1) = PROVINCIAS[k].clave

(* validar_diccionario was called with nullable false for the blank value, *)
(* which is a key of the dictionary passed, and raised                     *)
C15_Witness ==
    /\ caso.funcion = "validar_diccionario"
    /\ caso.llamado
    /\ ~caso.nullable
    /\ caso.seccion = <<" ", " ">>
    /\ caso.diccionario = DiccionarioConBlanco
    /\ ~caso.res.ok

(* What is left of s after its leading "0" characters *)
SinCeros(s) ==
    LET n == Cardinality({k \in 1..Len(s) : \A j \in 1..k : s[j] = "0"})
    IN  SubSeq(s, n + 1, Len(s))

(* 8 digits and 1 uppercase letter *)
EsDni(s) ==
    /\ Len(s) = 9
    /\ \A k \in 1..8 : s[k] \in Digitos
    /\ s[9] \in Mayusculas

(* One of X, Y, Z, then 7 digits and 1 uppercase letter *)
EsNie(s) ==
    /\ Len(s) = 9
    /\ s[1] \in {"X", "Y", "Z"}
    /\ \A k \in 2..8 : s[k] \in Digitos
    /\ s[9] \in Mayusculas

(* 6 to 9 uppercase letters or digits *)
EsPasaporte(s) ==
    /\ Len(s) >= 6
    /\ Len(s) <= 9
    /\ \A k \in 1..Len(s) : s[k] \in Mayusculas \/ s[k] \in Digitos

(* C16: validar_tipo_documento strips the leading "0" characters of the    *)
(* value and checks the remainder against the document type given by the   *)
(* first character of the type field: type 1 is accepted iff it is 8       *)
(* digits and 1 uppercase letter, type 6 iff one of X, Y, Z, 7 digits and  *)
(* 1 uppercase letter, type 2 iff 6 to 9 uppercase alphanumerics, type 9   *)
(* iff the external tax-ID predicate holds; for every other type code the  *)
(* validator never fails.  "00012345678Z" of type 1 is accepted.           *)
C16_FormatoDeDocumento ==
    (caso.funcion = "validar_tipo_documento" /\ caso.llamado) =>
       LET r == caso.res
           resto == SinCeros(caso.seccion)
           t == caso.tipo[1]
       IN  /\ t = "1" => (r.ok <=> EsDni(resto))
           /\ t = "6" => (r.ok <=> EsNie(resto))
           /\ t = "2" => (r.ok <=> EsPasaporte(resto))
           /\ t = "9" => (r.ok <=> CifIsValid(resto))
           /\ t \notin {"1", "2", "6", "9"} => r.ok
           /\ ~r.ok => r.clase = "ValidacionError"
           /\ (t = "1" /\ caso.seccion =
                  <<"0", "0", "0", "1", "2", "3", "4", "5", "6", "7", "8", "Z">>) => r.ok

(* validar_tipo_documento was called for "00012345678Z" of type 1 and      *)
(* returned "12345678Z"                                                    *)
C16_Witness ==
    /\ caso.funcion = "validar_tipo_documento"
    /\ caso.llamado
    /\ caso.seccion = <<"0", "0", "0", "1", "2", "3", "4", "5", "6", "7", "8", "Z">>
    /\ caso.tipo = <<"1", "('", "DNI", "')">>
    /\ caso.res.ok
    /\ caso.res.val = <<"1", "2", "3", "4", "5", "6", "7", "8", "Z">>

(* The lines of a session with header TRA *)
LineasTRA(a) ==
    {i \in 1..Len(a.lineas) :
        Len(a.lineas[i]) = LONGITUD /\ SubSeq(a.lineas[i], 1, 3) = <<"T", "R", "A">>}

(* The 1-based position of clave in a sequence of keys, 0 if absent *)
Posicion(claves, clave) ==
    IF \E j \in 1..Len(claves) : claves[j] = clave
    THEN CHOOSE j \in 1..Len(claves) : claves[j] = clave
    ELSE 0

(* Two lines are equal outside nacionalidad, columns 62 to 64 *)
IgualSalvoNacionalidad(l1, l2) ==
    /\ Len(l1) = Len(l2)
    /\ \A j \in (1..Len(l1)) \ {62, 63, 64} : l1[j] = l2[j]

(* C17: in a TRA line ipf_tipo (column 16) is validated before             *)
(* nacionalidad (columns 62 to 64).  When the first character of the       *)
(* validated ipf_tipo is "1", nacionalidad is accepted whatever it holds   *)
(* and stored as the raw slice; otherwise nacionalidad must be a key of    *)
(* the country dictionary, and the line fails on nacionalidad if it is not. *)
C17_NacionalidadCondicional ==
    \A k \in 1..Len(sesion) :
       LET a == sesion[k].afi IN
       sesion[k].parseos = 1 =>
          \A i \in LineasTRA(a) :
             LET linea == a.lineas[i]
                 r == ResultadoDeLinea(a, i)
                 v == a.traza[i].validados
                 tipo == linea[16]
                 raw == SubSeq(linea, 62, 64)
                 pais == raw \in Rango(Claves(PAISES))
                 falla_nacionalidad ==
                    /\ ~r.ok
                    /\ v # <<>>
                    /\ v[Len(v)] = "nacionalidad"
                    /\ r.err[9] = "nacionalidad"
                    /\ r.err[11] = "62"
             IN  /\ Posicion(v, "nacionalidad") > 0 =>
                       /\ Posicion(v, "ipf_tipo") > 0
                       /\ Posicion(v, "ipf_tipo") < Posicion(v, "nacionalidad")
                 /\ r.ok => Posicion(v, "ipf_tipo") > 0
                 /\ tipo = "1" =>
                       /\ Posicion(v, "nacionalidad") = 0
                       /\ r.ok => r.rec[9] = <<"nacionalidad", raw>>
                       /\ IgualSalvoNacionalidad(linea, LineaTRA) => r.ok
                 /\ tipo # "1" =>
                       /\ r.ok =>
                             /\ pais
                             /\ r.rec[9] = <<"nacionalidad",
                                             raw \o <<"('", Etiqueta(raw, PAISES), "')">> >>
                       /\ (\/ IgualSalvoNacionalidad(linea, LineaTRAPasaporte)
                           \/ IgualSalvoNacionalidad(linea, LineaTRANie)) =>
                             /\ pais => r.ok
                             /\ ~pais => falla_nacionalidad

(* A parsed TRA line of a DNI holder whose nacionalidad "XXX" is stored as *)
(* it is                                                                   *)
C17_Witness ==
    \E k \in 1..Len(sesion) :
       /\ sesion[k].parseos = 1
       /\ sesion[k].afi.lineas = <<Reemplazar(LineaTRA, 61, 64, <<"X", "X", "X">>)>>
       /\ Len(sesion[k].afi.resultados) = 1
       /\ sesion[k].afi.resultados[1][9] = <<"nacionalidad", <<"X", "X", "X">>>>
       /\ sesion[k].afi.traza[1].validados =
             <<"ss_provincia", "ss_numero", "ipf_tipo", "ipf_pais", "ipf_alfaclave">>

(* The lines of a session with header PES *)
LineasPES(a) ==
    {i \in 1..Len(a.lineas) :
        Len(a.lineas[i]) = LONGITUD /\ SubSeq(a.lineas[i], 1, 3) = <<"P", "E", "S">>}

(* Columns 3+2(n-1) to 3+2n (0-based, end exclusive) of a line *)
Peculiaridad(linea, n) == SubSeq(linea, (3 + (2 * (n - 1))) + 1, 3 + (2 * n))

(* C18: the PES schema is the header and 33 two-column fields looked up in *)
(* the peculiarity dictionary: field n (1 <= n <= 33) is named             *)
(* peculiaridad_n and covers columns 3+2(n-1) to 3+2n; the fields are      *)
(* validated, and appear in the Record, in increasing n; a failure on      *)
(* field n is reported under the name peculiaridad_n with the 1-based      *)
(* column 4+2(n-1).                                                        *)
C18_EsquemaPES ==
    \A k \in 1..Len(sesion) :
       LET a == sesion[k].afi IN
       sesion[k].parseos = 1 =>
          \A i \in LineasPES(a) :
             LET linea == a.lineas[i]
                 r == ResultadoDeLinea(a, i)
                 v == a.traza[i].validados
                 dic == TIPO_PECULIARIDAD_COTIZACION
                 malas == {n \in 1..33 : Peculiaridad(linea, n) \notin Rango(Claves(dic))}
             IN  /\ r.ok <=> malas = {}
                 /\ r.ok =>
                       /\ Len(r.rec) = 34
                       /\ r.rec[1] = <<"cabecera", <<"P", "E", "S">>>>
                       /\ \A n \in 1..33 :
                             r.rec[n + 1] =
                                <<"peculiaridad_" \o ToString(n),
                                  Peculiaridad(linea, n)
                                  \o <<"('", Etiqueta(Peculiaridad(linea, n), dic), "')">> >>
                       /\ v = [n \in 1..33 |-> "peculiaridad_" \o ToString(n)]
                 /\ malas # {} =>
                       LET p == CHOOSE n \in malas : \A m \in malas : n <= m
                       IN  /\ v = [n \in 1..p |-> "peculiaridad_" \o ToString(n)]
                           /\ r.err[9] = "peculiaridad_" \o ToString(p)
                           /\ r.err[11] = ToString(4 + (2 * (p - 1)))
                           /\ Cola(r.err, ReprLista(Claves(dic)), 0) = ReprLista(Claves(dic))

(* A parsed PES line whose peculiarities 5 and 20 are unknown: the error   *)
(* is the one of peculiaridad_5, at column 12, and five fields were        *)
(* validated                                                               *)
C18_Witness ==
    \E k \in 1..Len(sesion) :
       /\ sesion[k].parseos = 1
       /\ sesion[k].afi.lineas = <<LineaPESDosMalas>>
       /\ Len(sesion[k].afi.errores_parseo) = 1
       /\ sesion[k].afi.errores_parseo[1][9] = "peculiaridad_5"
       /\ sesion[k].afi.errores_parseo[1][11] = "12"
       /\ Len(sesion[k].afi.traza[1].validados) = 5

(* The lines of a session that have one of the eleven headers *)
ConCabecera(a) == (1..Len(a.lineas)) \ SinCabecera(a)

(* The ranges of a schema lie within columns 0..70, do not overlap, and    *)
(* each field starts where the previous one ends, the first being the      *)
(* header at columns 0..3                                                  *)
RangosContiguos(esquema) ==
    /\ Len(esquema) >= 1
    /\ esquema[1].clave = "cabecera"
    /\ esquema[1].ini = 0
    /\ esquema[1].fin = 3
    /\ \A j \in 1..Len(esquema) :
          /\ 0 <= esquema[j].ini
          /\ esquema[j].ini < esquema[j].fin
          /\ esquema[j].fin <= LONGITUD
    /\ \A j \in 2..Len(esquema) : esquema[j].ini = esquema[j - 1].fin
    /\ \A j, m \in 1..Len(esquema) :
          j < m => (esquema[j].fin <= esquema[m].ini \/ esquema[m].fin <= esquema[j].ini)

(* The fields of a schema that column c (0-based) belongs to *)
CamposDeColumna(esquema, c) ==
    {j \in 1..Len(esquema) : esquema[j].ini <= c /\ c < esquema[j].fin}

(* C19: in each of the eleven schemas every field's column range lies      *)
(* within columns 0..70, the ranges do not overlap and are contiguous, the *)
(* first being the header at columns 0..3, so every one of the 70 columns  *)
(* of a line belongs to exactly one field.                                 *)
C19_SetentaColumnas ==
    \A k \in 1..Len(sesion) :
       LET a == sesion[k].afi IN
       sesion[k].parseos = 1 =>
          \A i \in ConCabecera(a) :
             LET esquema == EsquemaDeLinea(a.lineas[i])
             IN  /\ RangosContiguos(esquema)
                 /\ \A c \in 0..(LONGITUD - 1) :
                       Cardinality(CamposDeColumna(esquema, c)) = 1

(* C19, amended: in each of the eleven schemas every field's column range  *)
(* lies within columns 0..70, the ranges do not overlap and are            *)
(* contiguous, the first being the header at columns 0..3.  In every       *)
(* schema but PES the last field ends at column 70, so each of the 70      *)
(* columns belongs to exactly one field; in PES the last field ends at     *)
(* column 69, so each of the first 69 columns belongs to exactly one field *)
(* and the last column of the line to none.                                *)
C19_ColumnasDeCadaEsquema ==
    \A k \in 1..Len(sesion) :
       LET a == sesion[k].afi IN
       sesion[k].parseos = 1 =>
          \A i \in ConCabecera(a) :
             LET esquema == EsquemaDeLinea(a.lineas[i])
                 ultima == IF SubSeq(a.lineas[i], 1, 3) = <<"P", "E", "S">>
                           THEN LONGITUD - 1 ELSE LONGITUD
             IN  /\ RangosContiguos(esquema)
                 /\ esquema[Len(esquema)].fin = ultima
                 /\ \A c \in 0..(ultima - 1) :
                       Cardinality(CamposDeColumna(esquema, c)) = 1
                 /\ \A c \in ultima..(LONGITUD - 1) : CamposDeColumna(esquema, c) = {}

(* A parsed PES line whose last column holds "Z": its Record has the       *)
(* header and the 33 peculiarities, and no value of it holds the "Z"       *)
C19_Witness ==
    \E k \in 1..Len(sesion) :
       /\ sesion[k].parseos = 1
       /\ sesion[k].afi.lineas = <<LineaPESUltima>>
       /\ Len(sesion[k].afi.resultados) = 1
       /\ Len(sesion[k].afi.resultados[1]) = 34
       /\ \A j \in 1..34 : "Z" \notin Rango(sesion[k].afi.resultados[1][j][2])

(* The document field of an EMP or TRA line: the 0-based column of its     *)
(* type field, the start of its 14 columns, and its key in the Record      *)
CampoDocumentoDe(linea) ==
    IF SubSeq(linea, 1, 3) = <<"E", "M", "P">>
    THEN [tipo |-> 18, ini |-> 22, clave |-> "empresario_numero_identificacion"]
    ELSE [tipo |-> 15, ini |-> 19, clave |-> "ipf_alfaclave"]

(* The EMP and TRA lines of a session *)
LineasConDocumento(a) ==
    {i \in 1..Len(a.lineas) :
        /\ Len(a.lineas[i]) = LONGITUD
        /\ SubSeq(a.lineas[i], 1, 3) \in {<<"E", "M", "P">>, <<"T", "R", "A">>}}

(* C20: zero-padded documents are accepted whatever their first digit: for *)
(* every well-formed national ID (8 digits and 1 uppercase letter) or      *)
(* passport (6 to 9 uppercase alphanumerics), also one whose own first     *)
(* character is "0", the value left-padded with "0" to the 14 columns of   *)
(* the document field of an EMP or TRA line passes validar_tipo_documento  *)
(* for its document type: the line does not fail on its document field.    *)
C20_DocumentoConCeros ==
    \A k \in 1..Len(sesion) :
       LET a == sesion[k].afi IN
       sesion[k].parseos = 1 =>
          \A i \in LineasConDocumento(a) :
             LET linea == a.lineas[i]
                 f == CampoDocumentoDe(linea)
                 tipo == linea[f.tipo + 1]
                 doc == SubSeq(linea, f.ini + 1, f.ini + 14)
                 v == a.traza[i].validados
                 bien_formado ==
                    \E d \in Documentos :
                       /\ doc = PadCeros(d, 14)
                       /\ \/ tipo = "1" /\ EsDni(d)
                          \/ tipo = "2" /\ EsPasaporte(d)
             IN  bien_formado =>
                    ~(/\ ~ResultadoDeLinea(a, i).ok
                      /\ v # <<>>
                      /\ v[Len(v)] = f.clave)

(* The lines of a session of 70 characters whose header is one of hs *)
LineasDeCabecera(a, hs) ==
    {i \in 1..Len(a.lineas) :
        Len(a.lineas[i]) = LONGITUD /\ SubSeq(a.lineas[i], 1, 3) \in hs}

(* An alphabetic letter *)
EsLetra(c) == c \in Mayusculas \/ c \in Minusculas \/ c \in LetrasNoAscii

(* C21: an AYN line is accepted if and only if all 20 characters of        *)
(* columns 4 to 23 (primer_apellido) are alphabetic letters: a surname     *)
(* shorter than 20 letters padded with blanks, or holding a blank or a     *)
(* hyphen, makes the line fail on primer_apellido; segundo_apellido,       *)
(* nombre and reservado are never checked and are stored as they are.      *)
C21_PrimerApellidoAlfabetico ==
    \A k \in 1..Len(sesion) :
       LET a == sesion[k].afi IN
       sesion[k].parseos = 1 =>
          \A i \in LineasDeCabecera(a, {<<"A", "Y", "N">>}) :
             LET linea == a.lineas[i]
                 r == ResultadoDeLinea(a, i)
                 letras == \A c \in 4..23 : EsLetra(linea[c])
             IN  /\ r.ok <=> letras
                 /\ a.traza[i].validados = <<"primer_apellido">>
                 /\ r.ok =>
                       r.rec = << <<"cabecera", <<"A", "Y", "N">>>>,
                                  <<"primer_apellido", SubSeq(linea, 4, 23)>>,
                                  <<"segundo_apellido", SubSeq(linea, 24, 43)>>,
                                  <<"nombre", SubSeq(linea, 44, 58)>>,
                                  <<"reservado", SubSeq(linea, 59, 70)>> >>
                 /\ ~r.ok =>
                       /\ r.err[9] = "primer_apellido"
                       /\ r.err[11] = "4"
                       /\ SubSeq(r.err, 13, 32) = SubSeq(linea, 4, 23)

(* A parsed AYN line whose surname is five letters and fifteen blanks and  *)
(* whose columns 24 to 70 are digits: it fails, on primer_apellido         *)
C21_Witness ==
    \E k \in 1..Len(sesion) :
       /\ sesion[k].parseos = 1
       /\ sesion[k].afi.lineas = <<Reemplazar(LineaAYNMala, 23, 70, Rep("7", 47))>>
       /\ sesion[k].afi.resultados = <<>>
       /\ Len(sesion[k].afi.errores_parseo) = 1
       /\ sesion[k].afi.errores_parseo[1][9] = "primer_apellido"
       /\ sesion[k].afi.traza[1].validados = <<"primer_apellido">>

(* The values of a Record, one after the other *)
RECURSIVE ValoresSeguidos(_)
ValoresSeguidos(rec) ==
    IF rec = <<>> THEN <<>> ELSE Head(rec)[2] \o ValoresSeguidos(Tail(rec))

(* The number of keys of the dict each of the three parsers returns *)
NumeroDeClaves(cabecera) ==
    CASE cabecera = <<"L", "D", "D">> -> 7
      [] cabecera = <<"F", "A", "B">> -> 31
      [] cabecera = <<"D", "A", "M">> -> 23

(* C22: a line with header LDD, FAB or DAM never fails: for every line of  *)
(* 70 characters that starts with one of the three headers, whatever its   *)
(* columns 4 to 70 hold, parse_linea returns a Record whose every field is *)
(* the raw slice of its column range, no validator is called, and          *)
(* parsear() adds nothing to errores_parseo for the line.                  *)
C22_SinValidacion ==
    \A k \in 1..Len(sesion) :
       LET a == sesion[k].afi IN
       sesion[k].parseos = 1 =>
          \A i \in LineasDeCabecera(a, {<<"L", "D", "D">>, <<"F", "A", "B">>,
                                         <<"D", "A", "M">>}) :
             LET linea == a.lineas[i]
                 esquema == EsquemaDeLinea(linea)
                 r == ResultadoDeLinea(a, i)
             IN  /\ r.ok
                 /\ ConPrefijo(a.errores_parseo, i) = {}
                 /\ a.traza[i].validados = <<>>
                 /\ Len(r.rec) = NumeroDeClaves(SubSeq(linea, 1, 3))
                 /\ Len(r.rec) = Len(esquema)
                 /\ \A j \in 1..Len(r.rec) :
                       r.rec[j] = <<esquema[j].clave,
                                    SubSeq(linea, esquema[j].ini + 1, esquema[j].fin)>>
                 /\ ValoresSeguidos(r.rec) = linea

(* A parsed file of an LDD line of hyphens, before a line that fails: the  *)
(* one Record is the one of the LDD line and the one error is of line 2    *)
C22_Witness ==
    \E k \in 1..Len(sesion) :
       /\ sesion[k].parseos = 1
       /\ sesion[k].afi.lineas = << <<"L", "D", "D">> \o Rep("-", 67), LineaXXX >>
       /\ Len(sesion[k].afi.resultados) = 1
       /\ sesion[k].afi.resultados[1][2] = <<"codigo_postal", Rep("-", 5)>>
       /\ Len(sesion[k].afi.errores_parseo) = 1
       /\ sesion[k].afi.errores_parseo[1][2] = "2"

=============================================================================
